---------------------------- MODULE Spec2Model ----------------------------
(***************************************************************************)
(* A model of lheq_stats.py: the statistics compiler (HockeyStatsCompiler), *)
(* the division assigner (DivisionAssigner) and the formation detector      *)
(* (FormationDetector).                                                     *)
(*                                                                          *)
(* Strings the program inspects character by character (player names, team  *)
(* names) are sequences of one-character tokens; a character outside ASCII  *)
(* is a token such as "e_acute", and the combining acute accent (Unicode    *)
(* category Mn) is the token "acute".  A Python None / missing key / 0 in   *)
(* an identity field is the value 0 (all three are falsy in `if not x`).    *)
(***************************************************************************)
EXTENDS Integers, Sequences, FiniteSets, TLC

VARIABLES
    nn,                 \* name normalizer: the string given and the results
    pp,                 \* calculate_powerplay_opportunities: its locals
    dv,                 \* DivisionAssigner.assign_divisions: its locals
    fd,                 \* FormationDetector: games, team_formations, report
    games,              \* HockeyStatsCompiler.games
    pc,                 \* position in process_games
    gi,                 \* index of the next game of the loop of process_games
    teams,              \* HockeyStatsCompiler.teams
    team_keys,          \* the keys of self.teams in the order of insertion
    players,            \* HockeyStatsCompiler.players
    player_keys,        \* the keys of self.players in the order of insertion
    player_games,       \* process_games' local player_games
    player_positions,   \* HockeyStatsCompiler.player_positions
    starting_goalies,   \* HockeyStatsCompiler.starting_goalies
    asked,              \* the last is_starting_goalie call and its result
    saved               \* save_data: the lists written to teams.json, players.json

vars == <<nn, pp, dv, fd, games, pc, gi, teams, team_keys, players, player_keys,
          player_games, player_positions, starting_goalies, asked, saved>>

compilerVars == <<games, pc, gi, teams, team_keys, players, player_keys,
                  player_games, player_positions, starting_goalies, asked, saved>>

Idle == "idle"

(***************************************************************************)
(* Generic helpers on sequences.                                            *)
(***************************************************************************)
Range(s) == {s[i] : i \in 1..Len(s)}

IndexOf(s, x) == IF \E i \in 1..Len(s) : s[i] = x
                 THEN CHOOSE i \in 1..Len(s) : s[i] = x /\ \A j \in 1..(i-1) : s[j] # x
                 ELSE 0

RECURSIVE Flatten(_)
Flatten(ss) == IF ss = <<>> THEN <<>> ELSE Head(ss) \o Flatten(Tail(ss))

SeqsUpTo(S, n) == UNION {[1..k -> S] : k \in 0..n}

(***************************************************************************)
(* Characters.                                                              *)
(***************************************************************************)
LowerLetters == <<"a","b","c","d","e","f","g","h","i","j","k","l","m",
                  "n","o","p","q","r","s","t","u","v","w","x","y","z",
                  "e_acute","i_circ">>
UpperLetters == <<"A","B","C","D","E","F","G","H","I","J","K","L","M",
                  "N","O","P","Q","R","S","T","U","V","W","X","Y","Z",
                  "E_ACUTE","I_CIRC">>

\* str.upper() on one character; the German sharp s becomes two letters
UpperChar(c) ==
    IF c = "sharp_s" THEN <<"S","S">>
    ELSE IF IndexOf(LowerLetters, c) # 0 THEN <<UpperLetters[IndexOf(LowerLetters, c)]>>
    ELSE <<c>>

\* str.lower() on one character
LowerChar(c) ==
    IF IndexOf(UpperLetters, c) # 0 THEN LowerLetters[IndexOf(UpperLetters, c)] ELSE c

\* unicodedata.normalize('NFD', .) on one character: the canonical decomposition
NFDChar(c) ==
    CASE c = "e_acute" -> <<"e","acute">>
      [] c = "E_ACUTE" -> <<"E","acute">>
      [] c = "i_circ"  -> <<"i","circ">>
      [] c = "I_CIRC"  -> <<"I","circ">>
      [] OTHER         -> <<c>>

\* unicodedata.category(c) == 'Mn'
IsMn(c) == c \in {"acute", "circ"}

\* the characters str.strip() removes
IsSpace(c) == c \in {" ", "tab"}

RECURSIVE LStrip(_)
LStrip(s) == IF s # <<>> /\ IsSpace(Head(s)) THEN LStrip(Tail(s)) ELSE s

RECURSIVE RStrip(_)
RStrip(s) == IF s # <<>> /\ IsSpace(s[Len(s)]) THEN RStrip(SubSeq(s, 1, Len(s)-1)) ELSE s

Strip(s) == RStrip(LStrip(s))

NFD(s) == Flatten([i \in 1..Len(s) |-> NFDChar(s[i])])

StripMarks(s) == SelectSeq(s, LAMBDA c : ~IsMn(c))

Upper(s) == Flatten([i \in 1..Len(s) |-> UpperChar(s[i])])

Lower(s) == [i \in 1..Len(s) |-> LowerChar(s[i])]

(***************************************************************************)
(* HockeyStatsCompiler.normalize_name                                       *)
(***************************************************************************)
\* a slip: the name is stripped of blanks before the accents are removed
normalize_name_strip_first(name) == Upper(StripMarks(NFD(Strip(name))))

\* NFD, drop the combining marks, upper-case, strip the ends (lines 404-406)
normalize_name(name) == Strip(Upper(StripMarks(NFD(name))))

(***************************************************************************)
(* Python's order on strings: code point by code point.                     *)
(***************************************************************************)
CodeOrder == <<"tab", " ", "-", ".">> \o SubSeq(UpperLetters, 1, 26) \o SubSeq(LowerLetters, 1, 26)
             \o <<"E_ACUTE", "I_CIRC", "sharp_s", "e_acute", "i_circ", "acute", "circ">>

Code(c) == IndexOf(CodeOrder, c)

RECURSIVE StrLess(_, _)
StrLess(a, b) ==
    IF b = <<>> THEN FALSE
    ELSE IF a = <<>> THEN TRUE
    ELSE IF Code(Head(a)) # Code(Head(b)) THEN Code(Head(a)) < Code(Head(b))
    ELSE StrLess(Tail(a), Tail(b))

(***************************************************************************)
(* The name normalizer on its own: a string is normalized, and the result   *)
(* is normalized again.                                                     *)
(***************************************************************************)
MaxNameLen == 3

NameAlphabet == {"j", "S", "e_acute", "E_ACUTE", "acute", " ", "tab", ".", "sharp_s"}

J_SMITH == <<"J", ".", " ", "S", "M", "I", "T", "H">>
j__smith == <<"j", ".", " ", " ", "s", "m", "i", "t", "h">>
j_smith == <<"j", ".", " ", "s", "m", "i", "t", "h">>
T_JONES == <<"T", ".", " ", "J", "O", "N", "E", "S">>

NameInputs == SeqsUpTo(NameAlphabet, MaxNameLen) \cup {J_SMITH, j__smith, j_smith, T_JONES}

NameInit == nn \in {[name |-> s, step |-> 0, once |-> <<>>, twice |-> <<>>] : s \in NameInputs}

Normalize ==
    /\ nn.step = 0
    /\ nn' = [nn EXCEPT !.step = 1, !.once = normalize_name(nn.name)]

NormalizeAgain ==
    /\ nn.step = 1
    /\ nn' = [nn EXCEPT !.step = 2, !.twice = normalize_name(nn.once)]

(***************************************************************************)
(* HockeyStatsCompiler.calculate_powerplay_opportunities                    *)
(*                                                                          *)
(* A penalty is [participantId, fullName, teamId, duration, period,         *)
(* minutes, seconds]; duration is the name of the penalty's duration.       *)
(***************************************************************************)
\* 'Minor' in duration_name or 'Mineure' in duration_name
HasMinor(duration_name) == duration_name \in {"Minor", "Mineure", "Double Minor"}
\* 'Major' in duration_name or 'Majeure' in duration_name
HasMajor(duration_name) == duration_name \in {"Major", "Majeure"}
\* 'Misconduct' in duration_name
HasMisconduct(duration_name) == duration_name \in {"Misconduct", "Game Misconduct"}

\* lines 529-537: the penalty's length in seconds
DurationSeconds(duration_name) ==
    IF HasMinor(duration_name) THEN 120
    ELSE IF HasMajor(duration_name) THEN 300
    ELSE IF HasMisconduct(duration_name) THEN 600
    ELSE 120

\* line 526: seconds from the start of the game
StartTime(penalty) == (penalty.period - 1) * 1200 + penalty.minutes * 60 + penalty.seconds

\* lines 518-547: the penalties with a team id, as intervals
PenaltyEvents(penalties) ==
    LET withTeam == SelectSeq(penalties, LAMBDA p : p.teamId # 0)
    IN  [i \in 1..Len(withTeam) |->
            [team_id |-> withTeam[i].teamId,
             start   |-> StartTime(withTeam[i]),
             end     |-> StartTime(withTeam[i]) + DurationSeconds(withTeam[i].duration)]]

RECURSIVE SortedSeqOf(_)
SortedSeqOf(S) ==
    IF S = {} THEN <<>>
    ELSE LET m == CHOOSE x \in S : \A y \in S : x <= y
         IN  <<m>> \o SortedSeqOf(S \ {m})

\* lines 553-558
TimePoints(events) ==
    SortedSeqOf({events[i].start : i \in 1..Len(events)} \cup {events[i].end : i \in 1..Len(events)})

\* a slip: the interval taken as closed at its end
ActiveAtClosed(event, current_time) == event.start <= current_time /\ current_time <= event.end

\* lines 570, 572: p['start'] <= current_time < p['end']
ActiveAt(event, current_time) == event.start <= current_time /\ current_time < event.end

ActivePenalties(events, team_id, current_time) ==
    Cardinality({i \in 1..Len(events) :
                    events[i].team_id = team_id /\ ActiveAt(events[i], current_time)})

\* a slip: equal counts give the home team the powerplay
HomeHasPPOnTie(s, i) ==
    ActivePenalties(s.events, s.away, s.time_points[i]) >= ActivePenalties(s.events, s.home, s.time_points[i])

\* lines 575-576 at the instant time_points[i]
HomeHasPP(s, i) ==
    ActivePenalties(s.events, s.away, s.time_points[i]) > ActivePenalties(s.events, s.home, s.time_points[i])
AwayHasPP(s, i) ==
    ActivePenalties(s.events, s.home, s.time_points[i]) > ActivePenalties(s.events, s.away, s.time_points[i])

\* lines 550-562: the locals before the loop
SweepStart(penalties, home_team_id, away_team_id) ==
    [penalties |-> penalties, home |-> home_team_id, away |-> away_team_id,
     events |-> PenaltyEvents(penalties),
     time_points |-> TimePoints(PenaltyEvents(penalties)),
     i |-> 1, prev_home_pp |-> FALSE, prev_away_pp |-> FALSE,
     home_opps |-> 0, away_opps |-> 0]

\* a slip: every instant on the powerplay counts, not only the first of a run
SweepStepEveryInstant(s) ==
    [s EXCEPT !.i = s.i + 1,
              !.home_opps = IF HomeHasPP(s, s.i) THEN @ + 1 ELSE @,
              !.away_opps = IF AwayHasPP(s, s.i) THEN @ + 1 ELSE @,
              !.prev_home_pp = HomeHasPP(s, s.i),
              !.prev_away_pp = AwayHasPP(s, s.i)]

\* lines 565-585: one iteration of the loop
SweepStep(s) ==
    [s EXCEPT !.i = s.i + 1,
              !.home_opps = IF HomeHasPP(s, s.i) /\ ~s.prev_home_pp THEN @ + 1 ELSE @,
              !.away_opps = IF AwayHasPP(s, s.i) /\ ~s.prev_away_pp THEN @ + 1 ELSE @,
              !.prev_home_pp = HomeHasPP(s, s.i),
              !.prev_away_pp = AwayHasPP(s, s.i)]

\* for i in range(len(time_points) - 1)
SweepDone(s) == s.i > Len(s.time_points) - 1

RECURSIVE SweepRun(_)
SweepRun(s) == IF SweepDone(s) THEN s ELSE SweepRun(SweepStep(s))

\* the dict returned, as <<home's count, away's count>>
calculate_powerplay_opportunities(penalties, home_team_id, away_team_id) ==
    LET s == SweepRun(SweepStart(penalties, home_team_id, away_team_id))
    IN  <<s.home_opps, s.away_opps>>

(***************************************************************************)
(* The calculator on its own, one loop iteration at a time.                 *)
(***************************************************************************)
MaxPenalties == 2

PenaltyTimes == {<<1, 0, 0>>, <<1, 1, 0>>, <<1, 2, 0>>, <<1, 3, 30>>, <<1, 19, 0>>}

PenaltyInputs ==
    {[participantId |-> 10 * t, fullName |-> <<"P">>, teamId |-> t, duration |-> d,
      period |-> tm[1], minutes |-> tm[2], seconds |-> tm[3]] :
        t \in {1, 2}, d \in {"Minor", "Major"}, tm \in PenaltyTimes}
    \cup
    {[participantId |-> 10, fullName |-> <<"P">>, teamId |-> 0, duration |-> "Minor",
      period |-> 1, minutes |-> 0, seconds |-> 0],
     [participantId |-> 10, fullName |-> <<"P">>, teamId |-> 1, duration |-> "Misconduct",
      period |-> 1, minutes |-> 1, seconds |-> 0],
     [participantId |-> 20, fullName |-> <<"P">>, teamId |-> 2, duration |-> "",
      period |-> 2, minutes |-> 0, seconds |-> 0]}

PPInit == pp \in {SweepStart(ps, 1, 2) : ps \in SeqsUpTo(PenaltyInputs, MaxPenalties)}

PPSweep ==
    /\ ~SweepDone(pp)
    /\ pp' = SweepStep(pp)

(***************************************************************************)
(* Game records.                                                            *)
(*                                                                          *)
(* game: [id, has_boxscore, bteams (boxscore.teams, each [id, name]),       *)
(*        home_score, away_score (NoScore for null), goals, penalties,      *)
(*        home_team_roster, away_team_roster, starting_goalies]             *)
(* goal: [participantId, fullName, teamId, isPowerplay, isShorthanded,      *)
(*        assists (each [participantId, fullName])]                         *)
(* roster entry: [participantId, fullName, positions, number]               *)
(* starting_goalies: [format, names]: "none" | "new" (home, away name) |    *)
(*        "old" (the names of the goalies list); <<>> is an absent name     *)
(***************************************************************************)
NoScore == -1

\* a Python dict: Put keeps the others, Get is d[k]
Put(d, k, v) == (k :> v) @@ d
Has(d, k) == k \in DOMAIN d
EmptyDict == <<>>

(***************************************************************************)
(* HockeyStatsCompiler.load_starting_goalies                                *)
(***************************************************************************)
\* lines 383-393: the names kept from one game's hint
StartingNames(game) ==
    IF game.starting_goalies.format = "none" THEN <<>>
    ELSE SelectSeq(game.starting_goalies.names, LAMBDA n : n # <<>>)

RECURSIVE LoadStartingGoaliesFrom(_, _)
LoadStartingGoaliesFrom(gs, sg) ==
    IF gs = <<>> THEN sg
    ELSE LoadStartingGoaliesFrom(Tail(gs),
            IF StartingNames(Head(gs)) # <<>>
            THEN Put(sg, Head(gs).id, StartingNames(Head(gs)))
            ELSE sg)

load_starting_goalies(gs) == LoadStartingGoaliesFrom(gs, EmptyDict)

(***************************************************************************)
(* HockeyStatsCompiler._is_likely_starting_goalie                           *)
(***************************************************************************)
\* lines 456-459
GoalieNumber(entry) == IF entry.number = 0 THEN 999 ELSE entry.number

\* lines 475-479: sort_key(a) < sort_key(b)
GoalieKeyLess(a, b) ==
    IF a.number # 999 /\ b.number # 999 THEN a.number < b.number
    ELSE IF a.number # 999 THEN TRUE
    ELSE IF b.number # 999 THEN FALSE
    ELSE StrLess(a.name, b.name)

\* line 481: goalies.sort(key=sort_key), a stable sort
SortGoalies(s) ==
    LET rank(i) == 1 + Cardinality({j \in 1..Len(s) :
                        GoalieKeyLess(s[j], s[i])
                        \/ (j < i /\ ~GoalieKeyLess(s[i], s[j]))})
    IN  [k \in 1..Len(s) |-> s[CHOOSE i \in 1..Len(s) : rank(i) = k]]

_is_likely_starting_goalie(player_name, team_id, game_data) ==
    IF Len(game_data.bteams) < 2 THEN TRUE
    ELSE
    LET roster == IF team_id = game_data.bteams[1].id
                  THEN game_data.home_team_roster ELSE game_data.away_team_roster
        inGoal == SelectSeq(roster, LAMBDA e : "G" \in Range(e.positions))
        \* line 450 assigns the parameter player_name for every goalie of the roster
        name == IF inGoal = <<>> THEN player_name ELSE inGoal[Len(inGoal)].fullName
        kept == SelectSeq(inGoal, LAMBDA e : e.participantId # 0 /\ e.fullName # <<>>)
        goalies == [i \in 1..Len(kept) |->
                      [name |-> kept[i].fullName, id |-> kept[i].participantId,
                       number |-> GoalieNumber(kept[i])]]
        sorted == SortGoalies(goalies)
        valid_goalies == SelectSeq(sorted, LAMBDA g : g.number # 999)
        names == [i \in 1..Len(sorted) |-> sorted[i].name]
    IN  IF goalies = <<>> THEN TRUE
        ELSE IF Len(goalies) = 1 THEN goalies[1].name = name
        ELSE IF valid_goalies # <<>> THEN valid_goalies[1].name = name
        ELSE IndexOf(names, name) \in {1, 2}

(***************************************************************************)
(* HockeyStatsCompiler.is_starting_goalie                                   *)
(***************************************************************************)
\* a variant that compares the names as they are written
NameMatchesRaw(starting_name, player_name) == starting_name = player_name

\* line 417
NameMatches(starting_name, player_name) ==
    normalize_name(starting_name) = normalize_name(player_name)

is_starting_goalie(sg, game_id, player_name, team_id, game_data) ==
    IF Has(sg, game_id)
    THEN \E i \in 1..Len(sg[game_id]) : NameMatches(sg[game_id][i], player_name)
    ELSE IF team_id # 0 THEN _is_likely_starting_goalie(player_name, team_id, game_data)
    ELSE TRUE

(***************************************************************************)
(* HockeyStatsCompiler: the team and player tables                          *)
(***************************************************************************)
\* initialize_team_stats, lines 296-320 (the logo is not modelled)
NewTeam(team_id, team_name) ==
    [id |-> team_id, name |-> team_name, games_played |-> 0,
     wins |-> 0, losses |-> 0, ties |-> 0, points |-> 0,
     goals_for |-> 0, goals_against |-> 0, goal_differential |-> 0,
     penalty_minutes |-> 0,
     powerplay_goals_for |-> 0, powerplay_goals_against |-> 0,
     powerplay_opportunities |-> 0,
     shorthanded_goals_for |-> 0, shorthanded_goals_against |-> 0,
     home_wins |-> 0, home_losses |-> 0, home_ties |-> 0,
     away_wins |-> 0, away_losses |-> 0, away_ties |-> 0]

\* initialize_player_stats, lines 325-343
NewPlayer(player_id, player_name, team_id, position) ==
    [id |-> player_id, name |-> player_name, team_id |-> team_id, position |-> position,
     games_played |-> 0, goals |-> 0, assists |-> 0, points |-> 0, penalty_minutes |-> 0,
     powerplay_goals |-> 0, powerplay_assists |-> 0,
     shorthanded_goals |-> 0, shorthanded_assists |-> 0,
     wins |-> 0, losses |-> 0, ties |-> 0, goals_against |-> 0]

\* the compiler's tables while process_games runs; err: an exception was raised
NewLedger == [teams |-> EmptyDict, team_keys |-> <<>>,
              players |-> EmptyDict, player_keys |-> <<>>,
              player_games |-> EmptyDict, err |-> FALSE]

initialize_team_stats(L, team_id, team_name) ==
    IF Has(L.teams, team_id) THEN L
    ELSE [L EXCEPT !.teams = Put(@, team_id, NewTeam(team_id, team_name)),
                   !.team_keys = Append(@, team_id)]

initialize_player_stats(L, player_id, player_name, team_id, position) ==
    IF Has(L.players, player_id) THEN L
    ELSE [L EXCEPT !.players = Put(@, player_id, NewPlayer(player_id, player_name, team_id, position)),
                   !.player_keys = Append(@, player_id)]

\* self.teams[team_id][field] += n
AddTeam(L, team_id, field, n) == [L EXCEPT !.teams[team_id][field] = @ + n]

\* self.teams[team_id][field] += n where team_id may be no key of self.teams (KeyError)
AddTeamChecked(L, team_id, field, n) ==
    IF L.err THEN L
    ELSE IF Has(L.teams, team_id) THEN AddTeam(L, team_id, field, n)
    ELSE [L EXCEPT !.err = TRUE]

\* self.players[player_id][field] += n
AddPlayer(L, player_id, field, n) == [L EXCEPT !.players[player_id][field] = @ + n]

\* player_games[player_id].add(game_id)
AddPlayerGame(L, player_id, game_id) ==
    [L EXCEPT !.player_games =
        IF Has(@, player_id) THEN [@ EXCEPT ![player_id] = @ \cup {game_id}]
        ELSE Put(@, player_id, {game_id})]

(***************************************************************************)
(* HockeyStatsCompiler.build_player_positions_index                         *)
(***************************************************************************)
StaffRoles == {"Trainer", "Assistant Coach", "Head Coach", "Safety Person", "Goaltending Coach"}

\* lines 355-364
IndexPosition(entry) ==
    LET position == IF entry.positions = <<>> THEN "F" ELSE entry.positions[1]
    IN  IF position = "C" THEN "F"
        ELSE IF position \in StaffRoles THEN "Coach"
        ELSE IF position \notin {"G", "D", "F"} THEN "F"
        ELSE position

RECURSIVE IndexRoster(_, _)
IndexRoster(roster, idx) ==
    IF roster = <<>> THEN idx
    ELSE IndexRoster(Tail(roster),
            IF Head(roster).participantId = 0 THEN idx
            ELSE Put(idx, Head(roster).participantId, IndexPosition(Head(roster))))

RECURSIVE IndexGames(_, _)
IndexGames(gs, idx) ==
    IF gs = <<>> THEN idx
    ELSE IndexGames(Tail(gs),
            IndexRoster(Head(gs).away_team_roster, IndexRoster(Head(gs).home_team_roster, idx)))

build_player_positions_index(gs) == IndexGames(gs, EmptyDict)

\* lines 496-503; the boxscores carry no 'roster' of their own
get_player_position(idx, player_id) == IF Has(idx, player_id) THEN idx[player_id] ELSE "F"

(***************************************************************************)
(* HockeyStatsCompiler.process_games: the body of the loop over the games   *)
(***************************************************************************)
\* lines 640-643; a null score raises TypeError at the first += that meets it
UpdateGoals(L, home_team_id, away_team_id, home_score, away_score) ==
    IF home_score = NoScore THEN [L EXCEPT !.err = TRUE]
    ELSE IF away_score = NoScore
    THEN [AddTeam(L, home_team_id, "goals_for", home_score) EXCEPT !.err = TRUE]
    ELSE AddTeam(AddTeam(AddTeam(AddTeam(L,
            home_team_id, "goals_for", home_score),
            home_team_id, "goals_against", away_score),
            away_team_id, "goals_for", away_score),
            away_team_id, "goals_against", home_score)

\* a slip: a tie awards two points, as a win does
DetermineOutcomeTieTwo(L, home_team_id, away_team_id, home_score, away_score) ==
    IF home_score > away_score
    THEN AddTeam(AddTeam(AddTeam(AddTeam(AddTeam(L,
            home_team_id, "wins", 1), home_team_id, "home_wins", 1), home_team_id, "points", 2),
            away_team_id, "losses", 1), away_team_id, "away_losses", 1)
    ELSE IF away_score > home_score
    THEN AddTeam(AddTeam(AddTeam(AddTeam(AddTeam(L,
            away_team_id, "wins", 1), away_team_id, "away_wins", 1), away_team_id, "points", 2),
            home_team_id, "losses", 1), home_team_id, "home_losses", 1)
    ELSE AddTeam(AddTeam(AddTeam(AddTeam(AddTeam(AddTeam(L,
            home_team_id, "ties", 1), home_team_id, "home_ties", 1), home_team_id, "points", 2),
            away_team_id, "ties", 1), away_team_id, "away_ties", 1), away_team_id, "points", 2)

\* lines 645-664
DetermineOutcome(L, home_team_id, away_team_id, home_score, away_score) ==
    IF home_score > away_score
    THEN AddTeam(AddTeam(AddTeam(AddTeam(AddTeam(L,
            home_team_id, "wins", 1), home_team_id, "home_wins", 1), home_team_id, "points", 2),
            away_team_id, "losses", 1), away_team_id, "away_losses", 1)
    ELSE IF away_score > home_score
    THEN AddTeam(AddTeam(AddTeam(AddTeam(AddTeam(L,
            away_team_id, "wins", 1), away_team_id, "away_wins", 1), away_team_id, "points", 2),
            home_team_id, "losses", 1), home_team_id, "home_losses", 1)
    ELSE AddTeam(AddTeam(AddTeam(AddTeam(AddTeam(AddTeam(L,
            home_team_id, "ties", 1), home_team_id, "home_ties", 1), home_team_id, "points", 1),
            away_team_id, "ties", 1), away_team_id, "away_ties", 1), away_team_id, "points", 1)

\* lines 692, 698
Opponent(team_id, home_team_id, away_team_id) ==
    IF team_id = home_team_id THEN away_team_id ELSE home_team_id

\* lines 689-693 (kind "powerplay") and 695-699 (kind "shorthanded")
CreditStrength(L, flag, kind, scorer_id, team_id, home_team_id, away_team_id) ==
    IF L.err \/ ~flag THEN L
    ELSE AddTeamChecked(
            AddTeamChecked(AddPlayer(L, scorer_id, kind \o "_goals", 1),
                           team_id, kind \o "_goals_for", 1),
            Opponent(team_id, home_team_id, away_team_id), kind \o "_goals_against", 1)

\* lines 703-725: one assist of a goal
ProcessAssist(L, idx, game, goal, assist) ==
    IF assist.participantId = 0 THEN L
    ELSE
    LET assist_id == assist.participantId
        L1 == initialize_player_stats(L, assist_id, assist.fullName, goal.teamId,
                                      get_player_position(idx, assist_id))
        L2 == AddPlayer(AddPlayer(L1, assist_id, "assists", 1), assist_id, "points", 1)
        L3 == AddPlayerGame(L2, assist_id, game.id)
        L4 == IF goal.isPowerplay THEN AddPlayer(L3, assist_id, "powerplay_assists", 1) ELSE L3
    IN  IF goal.isShorthanded THEN AddPlayer(L4, assist_id, "shorthanded_assists", 1) ELSE L4

RECURSIVE ProcessAssists(_, _, _, _, _)
ProcessAssists(L, idx, game, goal, assists) ==
    IF assists = <<>> THEN L
    ELSE ProcessAssists(ProcessAssist(L, idx, game, goal, Head(assists)),
                        idx, game, goal, Tail(assists))

\* a slip: the scorer's points are not incremented with the goal
CreditScorerNoPoint(L, scorer_id) == AddPlayer(L, scorer_id, "goals", 1)

\* lines 682-683
CreditScorer(L, scorer_id) == AddPlayer(AddPlayer(L, scorer_id, "goals", 1), scorer_id, "points", 1)

\* lines 668-725: one goal
ProcessGoal(L, idx, game, goal) ==
    IF L.err \/ goal.participantId = 0 \/ goal.teamId = 0 THEN L
    ELSE
    LET scorer_id == goal.participantId
        home_team_id == game.bteams[1].id
        away_team_id == game.bteams[2].id
        L1 == initialize_player_stats(L, scorer_id, goal.fullName, goal.teamId,
                                      get_player_position(idx, scorer_id))
        L2 == AddPlayerGame(CreditScorer(L1, scorer_id), scorer_id, game.id)
        L3 == CreditStrength(L2, goal.isPowerplay, "powerplay", scorer_id, goal.teamId,
                             home_team_id, away_team_id)
        L4 == CreditStrength(L3, goal.isShorthanded, "shorthanded", scorer_id, goal.teamId,
                             home_team_id, away_team_id)
    IN  IF L4.err THEN L4 ELSE ProcessAssists(L4, idx, game, goal, goal.assists)

RECURSIVE ProcessGoals(_, _, _, _)
ProcessGoals(L, idx, game, goals) ==
    IF goals = <<>> THEN L
    ELSE ProcessGoals(ProcessGoal(L, idx, game, Head(goals)), idx, game, Tail(goals))

\* a slip: every penalty counts 2 minutes
PenaltyMinutesFlat(duration_name) == 2

\* lines 738-746
PenaltyMinutes(duration_name) ==
    IF HasMinor(duration_name) THEN 2
    ELSE IF HasMajor(duration_name) THEN 5
    ELSE IF HasMisconduct(duration_name) THEN 10
    ELSE 2

\* lines 729-758: one penalty
ProcessPenalty(L, idx, game, penalty) ==
    IF L.err \/ penalty.participantId = 0 \/ penalty.teamId = 0 THEN L
    ELSE
    LET player_id == penalty.participantId
        L1 == initialize_player_stats(L, player_id, penalty.fullName, penalty.teamId,
                                      get_player_position(idx, player_id))
        L2 == AddPlayer(L1, player_id, "penalty_minutes", PenaltyMinutes(penalty.duration))
        L3 == AddTeamChecked(L2, penalty.teamId, "penalty_minutes", PenaltyMinutes(penalty.duration))
    IN  IF L3.err THEN L3 ELSE AddPlayerGame(L3, player_id, game.id)

RECURSIVE ProcessPenalties(_, _, _, _)
ProcessPenalties(L, idx, game, penalties) ==
    IF penalties = <<>> THEN L
    ELSE ProcessPenalties(ProcessPenalty(L, idx, game, Head(penalties)), idx, game, Tail(penalties))

\* a slip: the goalie is charged with the goals of his own team
CreditDecisionOwnGoals(L, player_id, own_score, other_score) ==
    AddPlayer(AddPlayer(L, player_id,
                 IF own_score > other_score THEN "wins"
                 ELSE IF own_score < other_score THEN "losses" ELSE "ties", 1),
              player_id, "goals_against", own_score)

\* lines 785-792 and 818-825: the decision of a starting goalie
CreditDecision(L, player_id, own_score, other_score) ==
    AddPlayer(AddPlayer(L, player_id,
                 IF own_score > other_score THEN "wins"
                 ELSE IF own_score < other_score THEN "losses" ELSE "ties", 1),
              player_id, "goals_against", other_score)

\* lines 761-792 (home) and 794-825 (away): one roster entry
ProcessRosterEntry(L, idx, sg, game, entry, team_id, own_score, other_score) ==
    IF entry.participantId = 0 \/ entry.fullName = <<>> THEN L
    ELSE
    LET player_id == entry.participantId
        position == get_player_position(idx, player_id)
        L1 == AddPlayerGame(
                 initialize_player_stats(L, player_id, entry.fullName, team_id, position),
                 player_id, game.id)
    IN  IF position \notin {"F", "D", "G", "C"} THEN L
        ELSE IF position = "G" /\ is_starting_goalie(sg, game.id, entry.fullName, team_id, game)
        THEN CreditDecision(L1, player_id, own_score, other_score)
        ELSE L1

RECURSIVE ProcessRoster(_, _, _, _, _, _, _, _)
ProcessRoster(L, idx, sg, game, roster, team_id, own_score, other_score) ==
    IF roster = <<>> THEN L
    ELSE ProcessRoster(
            ProcessRosterEntry(L, idx, sg, game, Head(roster), team_id, own_score, other_score),
            idx, sg, game, Tail(roster), team_id, own_score, other_score)

\* lines 630-637: games played and powerplay opportunities
CountGame(L, game, home_team_id, away_team_id) ==
    LET opps == calculate_powerplay_opportunities(game.penalties, home_team_id, away_team_id)
        L1 == AddTeam(AddTeam(L, home_team_id, "games_played", 1), away_team_id, "games_played", 1)
    IN  AddTeam(AddTeam(L1, home_team_id, "powerplay_opportunities", opps[1]),
                away_team_id, "powerplay_opportunities", opps[2])

\* lines 599-825: one game folded into the tables
ProcessOneGame(L, idx, sg, game) ==
    IF L.err \/ ~game.has_boxscore \/ Len(game.bteams) < 2 THEN L
    ELSE
    LET home_team_id == game.bteams[1].id
        away_team_id == game.bteams[2].id
        L1 == initialize_team_stats(
                 initialize_team_stats(L, home_team_id, game.bteams[1].name),
                 away_team_id, game.bteams[2].name)
        L2 == CountGame(L1, game, home_team_id, away_team_id)
        L3 == UpdateGoals(L2, home_team_id, away_team_id, game.home_score, game.away_score)
        L4 == DetermineOutcome(L3, home_team_id, away_team_id, game.home_score, game.away_score)
        L5 == ProcessGoals(L4, idx, game, game.goals)
        L6 == ProcessPenalties(L5, idx, game, game.penalties)
        L7 == ProcessRoster(L6, idx, sg, game, game.home_team_roster, home_team_id,
                            game.home_score, game.away_score)
    IN  IF L3.err THEN L3
        ELSE IF L6.err THEN L6
        ELSE ProcessRoster(L7, idx, sg, game, game.away_team_roster, away_team_id,
                           game.away_score, game.home_score)

(***************************************************************************)
(* HockeyStatsCompiler.process_games: after the loop                        *)
(***************************************************************************)
\* lines 838-841: the first game of the batch with this id
GameById(gs, game_id) == gs[CHOOSE i \in 1..Len(gs) :
                              gs[i].id = game_id /\ \A j \in 1..(i-1) : gs[j].id # game_id]

\* lines 831-845: the games of the player's set in which the player is the starter
StartedGames(L, gs, sg, player_id) ==
    Cardinality({game_id \in L.player_games[player_id] :
        is_starting_goalie(sg, game_id, L.players[player_id].name,
                           L.players[player_id].team_id, GameById(gs, game_id))})

\* line 843 with a goalie stored without a name: normalize_name(None) raises
GamesPlayedRaises(L, sg) ==
    \E player_id \in DOMAIN L.player_games :
        /\ Has(L.players, player_id)
        /\ L.players[player_id].position = "G"
        /\ L.players[player_id].name = <<>>
        /\ \E game_id \in L.player_games[player_id] : Has(sg, game_id)

\* lines 828-847
UpdateGamesPlayed(L, gs, sg) ==
    [L EXCEPT !.players = [player_id \in DOMAIN L.players |->
        IF ~Has(L.player_games, player_id) THEN L.players[player_id]
        ELSE [L.players[player_id] EXCEPT !.games_played =
                IF L.players[player_id].position = "G"
                THEN StartedGames(L, gs, sg, player_id)
                ELSE Cardinality(L.player_games[player_id])]]]

\* a slip: the differential is left as initialized
GoalDifferentialsStale(L) == L

\* lines 850-851
GoalDifferentials(L) ==
    [L EXCEPT !.teams = [team_id \in DOMAIN L.teams |->
        [L.teams[team_id] EXCEPT !.goal_differential =
            L.teams[team_id].goals_for - L.teams[team_id].goals_against]]]

\* lines 827-851
FinishGames(L, gs, sg) ==
    IF L.err THEN L
    ELSE IF GamesPlayedRaises(L, sg) THEN [L EXCEPT !.err = TRUE]
    ELSE GoalDifferentials(UpdateGamesPlayed(L, gs, sg))

RECURSIVE ProcessGamesFrom(_, _, _, _)
ProcessGamesFrom(L, idx, sg, gs) ==
    IF gs = <<>> THEN L
    ELSE ProcessGamesFrom(ProcessOneGame(L, idx, sg, Head(gs)), idx, sg, Tail(gs))

\* process_games on a batch, lines 589-853: the tables it leaves
process_games(gs) ==
    FinishGames(ProcessGamesFrom(NewLedger, build_player_positions_index(gs),
                                 load_starting_goalies(gs), gs),
                gs, load_starting_goalies(gs))

(***************************************************************************)
(* process_games as steps: the two index passes, one game of the loop at a  *)
(* time, the passes after the loop.                                         *)
(***************************************************************************)
Ledger == [teams |-> teams, team_keys |-> team_keys,
           players |-> players, player_keys |-> player_keys,
           player_games |-> player_games, err |-> pc = "error"]

SetLedger(L, next_pc) ==
    /\ teams' = L.teams
    /\ team_keys' = L.team_keys
    /\ players' = L.players
    /\ player_keys' = L.player_keys
    /\ player_games' = L.player_games
    /\ pc' = IF L.err THEN "error" ELSE next_pc

\* lines 593-596
BuildIndexes ==
    /\ pc = "start"
    /\ player_positions' = build_player_positions_index(games)
    /\ starting_goalies' = load_starting_goalies(games)
    /\ gi' = 1
    /\ pc' = "loop"
    /\ UNCHANGED <<games, teams, team_keys, players, player_keys, player_games, asked, saved>>

\* lines 598-825 for self.games[gi]
ProcessGame ==
    /\ pc = "loop" /\ gi <= Len(games)
    /\ SetLedger(ProcessOneGame(Ledger, player_positions, starting_goalies, games[gi]), "loop")
    /\ gi' = gi + 1
    /\ UNCHANGED <<games, player_positions, starting_goalies, asked, saved>>

\* lines 827-853
FinishProcessing ==
    /\ pc = "loop" /\ gi > Len(games)
    /\ SetLedger(FinishGames(Ledger, games, starting_goalies), "done")
    /\ UNCHANGED <<games, gi, player_positions, starting_goalies, asked, saved>>

(***************************************************************************)
(* HockeyStatsCompiler.save_data: the lists written to teams.json and       *)
(* players.json (the summary of the games is not modelled)                  *)
(***************************************************************************)
\* sorted(values, key=...): a stable sort; less holds the pairs <<i, j>> of
\* positions of s with key(s[i]) < key(s[j])
StableOrder(s, less) ==
    LET rank(i) == 1 + Cardinality({j \in 1..Len(s) :
                        <<j, i>> \in less \/ (j < i /\ <<i, j>> \notin less)})
    IN  [k \in 1..Len(s) |-> s[CHOOSE i \in 1..Len(s) : rank(i) = k]]

\* lines 906-916
save_data(L) ==
    LET team_values == [i \in 1..Len(L.team_keys) |-> L.teams[L.team_keys[i]]]
        player_values == [i \in 1..Len(L.player_keys) |-> L.players[L.player_keys[i]]]
        \* (-x['points'], -x['goal_differential'], x['name'])
        TeamKeyLess(x, y) ==
            \/ x.points > y.points
            \/ x.points = y.points /\ x.goal_differential > y.goal_differential
            \/ x.points = y.points /\ x.goal_differential = y.goal_differential
                  /\ StrLess(x.name, y.name)
        \* (-x['points'], -x['goals'], x['name'])
        PlayerKeyLess(x, y) ==
            \/ x.points > y.points
            \/ x.points = y.points /\ x.goals > y.goals
            \/ x.points = y.points /\ x.goals = y.goals /\ StrLess(x.name, y.name)
    IN  [teams_list |-> StableOrder(team_values,
            {q \in (1..Len(team_values)) \X (1..Len(team_values)) :
                TeamKeyLess(team_values[q[1]], team_values[q[2]])}),
         players_list |-> StableOrder(player_values,
            {q \in (1..Len(player_values)) \X (1..Len(player_values)) :
                PlayerKeyLess(player_values[q[1]], player_values[q[2]])})]

\* compile_all, line 959, after process_games has returned
SaveData ==
    /\ pc = "done"
    /\ saved' = save_data(Ledger)
    /\ pc' = "saved"
    /\ UNCHANGED <<games, gi, teams, team_keys, players, player_keys, player_games,
                   player_positions, starting_goalies, asked>>

(***************************************************************************)
(* The batches of games the compiler is run on.  Teams 1 ("A") and 2 ("B"); *)
(* skaters 10-13 of team 1, 20-21 of team 2; goalies 30, 31 of team 1 and   *)
(* 40 of team 2; 90 a coach.                                                *)
(***************************************************************************)
MaxGames == 2

TeamA == [id |-> 1, name |-> <<"A">>]
TeamB == [id |-> 2, name |-> <<"B">>]

Nm(player_id) ==
    CASE player_id = 10 -> <<"a", "a">>
      [] player_id = 11 -> <<"a", "b">>
      [] player_id = 12 -> <<"a", "c">>
      [] player_id = 13 -> <<"a", "d">>
      [] player_id = 14 -> <<"a", "e">>
      [] player_id = 15 -> <<"a", "f">>
      [] player_id = 16 -> <<"a", "g">>
      [] player_id = 20 -> <<"b", "a">>
      [] player_id = 21 -> <<"b", "b">>
      [] player_id = 30 -> j_smith
      [] player_id = 31 -> <<"t", ".", " ", "j", "o", "n", "e", "s">>
      [] player_id = 40 -> <<"g", "o">>
      [] OTHER          -> <<"c", "o">>

Entry(player_id, position, number) ==
    [participantId |-> player_id, fullName |-> Nm(player_id),
     positions |-> <<position>>, number |-> number]

RosterA == <<Entry(10, "F", 10), Entry(11, "C", 11), Entry(12, "D", 12), Entry(13, "F", 13),
             Entry(31, "G", 35), Entry(30, "G", 1), Entry(90, "Head Coach", 0)>>
RosterB == <<Entry(20, "F", 20), Entry(21, "D", 21), Entry(40, "G", 30)>>

Assist(player_id) == [participantId |-> player_id, fullName |-> Nm(player_id)]

Goal(player_id, team_id, isPowerplay, isShorthanded, assist_ids) ==
    [participantId |-> player_id, fullName |-> Nm(player_id), teamId |-> team_id,
     isPowerplay |-> isPowerplay, isShorthanded |-> isShorthanded,
     assists |-> [i \in 1..Len(assist_ids) |-> Assist(assist_ids[i])]]

Penalty(player_id, team_id, duration, minutes, seconds) ==
    [participantId |-> player_id, fullName |-> Nm(player_id), teamId |-> team_id,
     duration |-> duration, period |-> 1, minutes |-> minutes, seconds |-> seconds]

NoHints == [format |-> "none", names |-> <<>>]

Game(home, away, home_score, away_score, goals, penalties, home_roster, away_roster, hints) ==
    [id |-> 0, has_boxscore |-> TRUE, bteams |-> <<home, away>>,
     home_score |-> home_score, away_score |-> away_score,
     goals |-> goals, penalties |-> penalties,
     home_team_roster |-> home_roster, away_team_roster |-> away_roster,
     starting_goalies |-> hints]

\* home team A beats away team B 3-1: an even-strength goal by 10 from 11, a
\* powerplay goal by 10 from 11 and 12, a goal by 13 alone; B's goal by 20
ScenarioGame ==
    Game(TeamA, TeamB, 3, 1,
         <<Goal(10, 1, FALSE, FALSE, <<11>>), Goal(10, 1, TRUE, FALSE, <<11, 12>>),
           Goal(13, 1, FALSE, FALSE, <<>>), Goal(20, 2, FALSE, FALSE, <<>>)>>,
         <<>>, RosterA, RosterB, NoHints)

\* B at home against A, with penalties and the starters named
ReturnGame(home_score, away_score) ==
    Game(TeamB, TeamA, home_score, away_score,
         <<Goal(20, 2, FALSE, TRUE, <<21>>), Goal(11, 1, TRUE, FALSE, <<10>>)>>,
         <<Penalty(21, 2, "Minor", 1, 0), Penalty(10, 1, "Major", 3, 30)>>,
         RosterB, RosterA,
         [format |-> "new", names |-> <<Nm(40), J_SMITH>>])

\* 13 has moved to team B, where he plays defense
TradedGame ==
    Game(TeamA, TeamB, 0, 1, <<Goal(13, 2, FALSE, FALSE, <<20>>)>>, <<>>,
         <<Entry(10, "F", 10), Entry(30, "G", 1)>>,
         <<Entry(13, "D", 13), Entry(20, "F", 20), Entry(40, "G", 30)>>, NoHints)

\* 31 has moved to team B, where he dresses as second goalie behind 40
TradedGoalieGame ==
    Game(TeamA, TeamB, 1, 2, <<>>, <<>>,
         <<Entry(10, "F", 10), Entry(30, "G", 1)>>,
         <<Entry(20, "F", 20), Entry(40, "G", 30), Entry(31, "G", 35)>>, NoHints)

\* 31, a goalie elsewhere, dresses as a forward; the old hint format
SkaterGoalieGame ==
    Game(TeamA, TeamB, 2, 2, <<Goal(31, 1, FALSE, FALSE, <<10>>)>>,
         <<Penalty(31, 1, "Misconduct", 5, 0)>>,
         <<Entry(10, "F", 10), Entry(31, "F", 35), Entry(30, "G", 1)>>, RosterB,
         [format |-> "old", names |-> <<Nm(30), <<>>, Nm(40)>>])

\* records with identities missing: a goal without scorer, an assist without
\* participant, a penalty without player, a roster entry without participant
MissingIdGame ==
    Game(TeamA, TeamB, 1, 0,
         <<[Goal(10, 1, FALSE, FALSE, <<>>) EXCEPT !.participantId = 0],
           [Goal(11, 1, FALSE, FALSE, <<12>>) EXCEPT !.assists = <<[participantId |-> 0, fullName |-> Nm(12)]>>]>>,
         <<[Penalty(10, 1, "Minor", 0, 0) EXCEPT !.participantId = 0],
           [Penalty(20, 2, "Minor", 0, 0) EXCEPT !.teamId = 0]>>,
         <<[Entry(10, "F", 10) EXCEPT !.participantId = 0], Entry(30, "G", 0)>>,
         <<Entry(40, "G", 0)>>, NoHints)

\* a penalty charged to a team that is not in the game; a game without scores
ForeignPenaltyGame ==
    Game(TeamA, TeamB, 1, 1, <<>>, <<Penalty(10, 3, "Minor", 0, 0)>>, RosterA, RosterB, NoHints)
NoScoreGame ==
    Game(TeamA, TeamB, NoScore, NoScore, <<>>, <<>>, RosterA, RosterB, NoHints)
ForeignGoalGame ==
    Game(TeamA, TeamB, 1, 0, <<Goal(10, 3, TRUE, FALSE, <<>>)>>, <<>>, RosterA, RosterB, NoHints)

\* a scoreless tie between A and B, at A or at B; 14 of A and 24 of B bear the
\* same name
NamesakeGame(at_home) ==
    LET a == <<Entry(14, "F", 14)>>
        b == <<[Entry(24, "F", 24) EXCEPT !.fullName = Nm(14)]>>
    IN  IF at_home THEN Game(TeamA, TeamB, 0, 0, <<>>, <<>>, a, b, NoHints)
        ELSE Game(TeamB, TeamA, 0, 0, <<>>, <<>>, b, a, NoHints)

\* the staff of team A on its roster: a head coach, a manager and a trainer;
\* 14 is listed with a wing's code; penalties named in French and one whose
\* duration has no name
StaffGame ==
    Game(TeamA, TeamB, 1, 0, <<Goal(10, 1, FALSE, FALSE, <<>>)>>,
         <<Penalty(14, 1, "Mineure", 2, 0), Penalty(10, 1, "Majeure", 5, 0),
           Penalty(20, 2, "", 7, 0)>>,
         <<Entry(10, "F", 10), Entry(14, "LW", 14), Entry(30, "G", 1),
           Entry(90, "Head Coach", 0), Entry(91, "Manager", 0), Entry(92, "Trainer", 0)>>,
         RosterB, NoHints)

\* games process_games skips: no boxscore, one team only
NoBoxscoreGame == [ScenarioGame EXCEPT !.has_boxscore = FALSE]
OneTeamGame == [ScenarioGame EXCEPT !.bteams = <<TeamA>>]

GameTemplates ==
    {ScenarioGame, ReturnGame(2, 1), ReturnGame(1, 2), ReturnGame(0, 0), TradedGame,
     SkaterGoalieGame, MissingIdGame, ForeignPenaltyGame, NoScoreGame, ForeignGoalGame,
     NoBoxscoreGame, OneTeamGame, NamesakeGame(TRUE), NamesakeGame(FALSE),
     TradedGoalieGame, StaffGame}

\* the i-th game of a batch has id i
WithIds(gs) == [i \in 1..Len(gs) |-> [gs[i] EXCEPT !.id = i]]

Batches == {WithIds(gs) : gs \in SeqsUpTo(GameTemplates, MaxGames)}

(***************************************************************************)
(* The goalie-start resolver alone: one game, its hints loaded, then        *)
(* is_starting_goalie asked about a name and a team.                        *)
(***************************************************************************)
E_VE == <<"E_ACUTE", "v", "e">>
e_ve == <<"e_acute", "v", "e">>

HintNames == {J_SMITH, T_JONES, E_VE, <<>>}

Hints ==
    {NoHints}
    \cup {[format |-> "new", names |-> <<h, a>>] : h \in HintNames, a \in HintNames}
    \cup {[format |-> "old", names |-> ns] : ns \in SeqsUpTo(HintNames \ {E_VE}, 2)}

GoalieEntry(player_id, name, number) ==
    [participantId |-> player_id, fullName |-> name, positions |-> <<"G">>, number |-> number]

GoalieRosters ==
    {<<GoalieEntry(30, j__smith, 1), GoalieEntry(31, T_JONES, 35)>>,
     <<GoalieEntry(31, T_JONES, 35), GoalieEntry(30, j_smith, 1)>>,
     <<GoalieEntry(30, e_ve, 0), GoalieEntry(31, T_JONES, 0), Entry(10, "F", 10)>>}

GoalieGames ==
    {Game(TeamA, TeamB, 2, 1, <<>>, <<>>, r, RosterB, h) : r \in GoalieRosters, h \in Hints}

AskNames == {j__smith, j_smith, T_JONES, e_ve, Nm(40)}

LoadStartingGoalies ==
    /\ pc = "load"
    /\ starting_goalies' = load_starting_goalies(games)
    /\ pc' = "ask"
    /\ UNCHANGED <<games, gi, teams, team_keys, players, player_keys, player_games,
                   player_positions, asked, saved>>

AskStartingGoalie ==
    /\ pc \in {"ask", "asked"}
    /\ \E player_name \in AskNames, team_id \in {1, 2} :
          asked' = [game_id |-> games[1].id, player_name |-> player_name, team_id |-> team_id,
                    result |-> is_starting_goalie(starting_goalies, games[1].id, player_name,
                                                  team_id, games[1])]
    /\ pc' = "asked"
    /\ UNCHANGED <<games, gi, teams, team_keys, players, player_keys, player_games,
                   player_positions, starting_goalies, saved>>

(***************************************************************************)
(* Specifications                                                           *)
(***************************************************************************)
CompilerIdle ==
    /\ games = <<>> /\ pc = Idle /\ gi = 0
    /\ teams = EmptyDict /\ players = EmptyDict /\ player_games = EmptyDict
    /\ team_keys = <<>> /\ player_keys = <<>> /\ saved = Idle
    /\ player_positions = EmptyDict /\ starting_goalies = EmptyDict /\ asked = Idle

\* the compiler before process_games, the batch loaded
Init ==
    /\ games \in Batches
    /\ pc = "start" /\ gi = 0
    /\ teams = EmptyDict /\ players = EmptyDict /\ player_games = EmptyDict
    /\ team_keys = <<>> /\ player_keys = <<>> /\ saved = Idle
    /\ player_positions = EmptyDict /\ starting_goalies = EmptyDict /\ asked = Idle
    /\ nn = Idle /\ pp = Idle /\ dv = Idle /\ fd = Idle

Next ==
    \/ BuildIndexes /\ UNCHANGED <<nn, pp, dv, fd>>
    \/ ProcessGame /\ UNCHANGED <<nn, pp, dv, fd>>
    \/ FinishProcessing /\ UNCHANGED <<nn, pp, dv, fd>>
    \/ SaveData /\ UNCHANGED <<nn, pp, dv, fd>>

Spec == Init /\ [][Next]_vars

\* the name normalizer alone
InitName == NameInit /\ pp = Idle /\ dv = Idle /\ fd = Idle /\ CompilerIdle

NextName ==
    \/ Normalize /\ UNCHANGED <<pp, dv, fd, compilerVars>>
    \/ NormalizeAgain /\ UNCHANGED <<pp, dv, fd, compilerVars>>

SpecName == InitName /\ [][NextName]_vars

\* the powerplay calculator alone
InitPP == PPInit /\ nn = Idle /\ dv = Idle /\ fd = Idle /\ CompilerIdle

NextPP == PPSweep /\ UNCHANGED <<nn, dv, fd, compilerVars>>

SpecPP == InitPP /\ [][NextPP]_vars

\* the goalie-start resolver alone
InitGoalie ==
    /\ games \in {WithIds(<<g>>) : g \in GoalieGames}
    /\ pc = "load" /\ gi = 0
    /\ teams = EmptyDict /\ players = EmptyDict /\ player_games = EmptyDict
    /\ team_keys = <<>> /\ player_keys = <<>> /\ saved = Idle
    /\ player_positions = EmptyDict /\ starting_goalies = EmptyDict /\ asked = Idle
    /\ nn = Idle /\ pp = Idle /\ dv = Idle /\ fd = Idle

NextGoalie ==
    \/ LoadStartingGoalies /\ UNCHANGED <<nn, pp, dv, fd>>
    \/ AskStartingGoalie /\ UNCHANGED <<nn, pp, dv, fd>>

SpecGoalie == InitGoalie /\ [][NextGoalie]_vars

(***************************************************************************)
(* Properties of the League Ledger                                          *)
(***************************************************************************)
Reorderings(s) ==
    {[i \in 1..Len(s) |-> s[f[i]]] : f \in {g \in [1..Len(s) -> 1..Len(s)] : Range(g) = 1..Len(s)}}

\* C1: process_games run on any permutation of the batch leaves the same team
\* table and the same player table (every field of every row)
C1_OrderIndependence ==
    pc = "done" =>
        \A gs \in Reorderings(games) :
            /\ ~process_games(gs).err
            /\ process_games(gs).teams = teams
            /\ process_games(gs).players = players

\* C2: every team row has points = 2 * wins + ties, after each game folded in
\* and after the run
C2_PointsInvariant ==
    \A team_id \in DOMAIN teams :
        teams[team_id].points = 2 * teams[team_id].wins + teams[team_id].ties

C2_Witness ==
    /\ pc = "done"
    /\ \E team_id \in DOMAIN teams : teams[team_id].wins > 0 /\ teams[team_id].ties > 0

\* C3: once process_games has finished every team row has goal_differential =
\* goals_for - goals_against; while the games are folded in the differential
\* stays as initialized (it is not accumulated per game)
C3_GoalDifferential ==
    /\ pc = "done" =>
          \A team_id \in DOMAIN teams :
              teams[team_id].goal_differential =
                  teams[team_id].goals_for - teams[team_id].goals_against
    /\ pc = "loop" => \A team_id \in DOMAIN teams : teams[team_id].goal_differential = 0

C3_Witness ==
    /\ pc = "done"
    /\ \E team_id \in DOMAIN teams :
          teams[team_id].games_played = 2 /\ teams[team_id].goal_differential < 0

ScenarioRun == pc = "done" /\ games = WithIds(<<ScenarioGame>>)

ScenarioTeamA ==
    /\ teams[1].wins = 1 /\ teams[1].points = 2
    /\ teams[1].goals_for = 3 /\ teams[1].powerplay_goals_for = 1

\* C9 as stated: in the one-game scenario player 10 ends with 2 goals, 1 assist
\* and 3 points, team A with 1 win, 2 points, 3 goals for, 1 powerplay goal for
C9_ScenarioAsStated ==
    ScenarioRun =>
        /\ players[10].goals = 2 /\ players[10].assists = 1 /\ players[10].points = 3
        /\ ScenarioTeamA

\* C9: in the one-game scenario player 10 ends with 2 goals, 0 assists and 2
\* points (10 assists on no goal of the scenario), team A with 1 win, 2 points,
\* 3 goals for and 1 powerplay goal for
C9_Scenario ==
    ScenarioRun =>
        /\ players[10].goals = 2 /\ players[10].assists = 0 /\ players[10].points = 2
        /\ ScenarioTeamA

C9_Witness == ScenarioRun /\ players[10].goals = 2 /\ players[11].assists = 2

(***************************************************************************)
(* Properties of the powerplay-interval calculator                          *)
(***************************************************************************)
\* the batch is two minors taken by the same team
TwoMinorsOf(team_id) ==
    /\ Len(pp.penalties) = 2
    /\ \A i \in 1..2 : pp.penalties[i].teamId = team_id /\ HasMinor(pp.penalties[i].duration)

MinorStart(i) == StartTime(pp.penalties[i])

OppsAgainst(team_id) == IF team_id = pp.home THEN pp.away_opps ELSE pp.home_opps

\* C4 as stated: two minors by one team give the opponent 2 opportunities
\* whenever their intervals [start, start+120) do not overlap, and 1 when they
\* start at the same time
C4_TwoMinorsAsStated ==
    \A team_id \in {1, 2} :
        (SweepDone(pp) /\ TwoMinorsOf(team_id)) =>
            /\ (MinorStart(1) + 120 <= MinorStart(2) \/ MinorStart(2) + 120 <= MinorStart(1))
                  => OppsAgainst(team_id) = 2
            /\ MinorStart(1) = MinorStart(2) => OppsAgainst(team_id) = 1

\* C4: two minors by one team give the opponent 2 opportunities whenever one
\* starts strictly after the other has ended (a gap between the intervals),
\* and 1 when they start at the same time
C4_TwoMinors ==
    \A team_id \in {1, 2} :
        (SweepDone(pp) /\ TwoMinorsOf(team_id)) =>
            /\ (MinorStart(1) + 120 < MinorStart(2) \/ MinorStart(2) + 120 < MinorStart(1))
                  => OppsAgainst(team_id) = 2
            /\ MinorStart(1) = MinorStart(2) => OppsAgainst(team_id) = 1

C4_Witness ==
    /\ SweepDone(pp) /\ TwoMinorsOf(1)
    /\ MinorStart(1) + 120 < MinorStart(2)
    /\ pp.away_opps = 2 /\ pp.home_opps = 0

(***************************************************************************)
(* Properties of the name normalizer and the goalie-start resolver          *)
(***************************************************************************)
\* C5: with the explicit hint "J. SMITH" the roster goalie "j.  smith" (two
\* inner blanks) is resolved as starter, and "T. JONES" is not
C5_HintMatchesUpToCaseAndBlanks ==
    (pc = "asked" /\ Has(starting_goalies, asked.game_id)
        /\ Range(starting_goalies[asked.game_id]) = {J_SMITH}) =>
            /\ asked.player_name = j__smith => asked.result
            /\ asked.player_name = T_JONES => ~asked.result

\* C6: normalize_name(normalize_name(s)) = normalize_name(s) for every s
C6_Idempotent == nn.step = 2 => nn.twice = nn.once

C6_Witness ==
    /\ nn.step = 2
    /\ nn.name = <<" ", "e_acute", "tab">>
    /\ nn.once = <<"E">>


(***************************************************************************)
(* DivisionAssigner.similarity: difflib's SequenceMatcher(None, a, b)       *)
(* .ratio() on the lower-cased strings.  Indices are Python's: a[i] is the  *)
(* element i+1 of the sequence, a range alo..ahi excludes ahi.  No          *)
(* character is junk (names are shorter than 200 characters).  A score is   *)
(* the fraction num/den.                                                    *)
(***************************************************************************)
RECURSIVE MatchLength(_, _, _, _, _, _)
MatchLength(a, b, i, j, ahi, bhi) ==
    IF i >= ahi \/ j >= bhi THEN 0
    ELSE IF a[i+1] # b[j+1] THEN 0
    ELSE 1 + MatchLength(a, b, i+1, j+1, ahi, bhi)

\* the longest block a[i:i+k] = b[j:j+k]; of those the one that starts
\* earliest in a, and of those the one that starts earliest in b
find_longest_match(a, b, alo, ahi, blo, bhi) ==
    LET starts == (alo..(ahi-1)) \X (blo..(bhi-1))
        size == [p \in starts |-> MatchLength(a, b, p[1], p[2], ahi, bhi)]
        sizes == {size[p] : p \in starts}
        k == CHOOSE n \in sizes : \A m \in sizes : m <= n
        rows == {p[1] : p \in {q \in starts : size[q] = k}}
        i == CHOOSE n \in rows : \A m \in rows : n <= m
        cols == {p[2] : p \in {q \in starts : size[q] = k /\ q[1] = i}}
        j == CHOOSE n \in cols : \A m \in cols : n <= m
    IN  IF starts = {} THEN <<alo, blo, 0>>
        ELSE IF k = 0 THEN <<alo, blo, 0>>
        ELSE <<i, j, k>>

\* get_matching_blocks: the block, then the blocks left and right of it
RECURSIVE MatchingCharacters(_, _, _, _, _, _)
MatchingCharacters(a, b, alo, ahi, blo, bhi) ==
    IF alo >= ahi \/ blo >= bhi THEN 0
    ELSE LET x == find_longest_match(a, b, alo, ahi, blo, bhi)
         IN  IF x[3] = 0 THEN 0
             ELSE x[3] + MatchingCharacters(a, b, alo, x[1], blo, x[2])
                       + MatchingCharacters(a, b, x[1] + x[3], ahi, x[2] + x[3], bhi)

\* ratio(): 2.0 * matches / (len(a) + len(b)), and 1.0 for two empty strings
Ratio(a, b) ==
    IF Len(a) + Len(b) = 0 THEN [num |-> 1, den |-> 1]
    ELSE [num |-> 2 * MatchingCharacters(a, b, 0, Len(a), 0, Len(b)),
          den |-> Len(a) + Len(b)]

similarity(a, b) == Ratio(Lower(a), Lower(b))

\* x > y on scores
ScoreGreater(x, y) == x.num * y.den > y.num * x.den

(***************************************************************************)
(* DivisionAssigner.normalize_team_name                                     *)
(***************************************************************************)
\* lines 980-987, in the order of the dict
replacements == <<
    [old |->
        <<"g","r","e","n","a","d","i","e","r","s"," ","l","a","c"," ","s",
          "t","-","l","o","u","i","s">>,
     new |->
        <<"g","r","e","n","a","d","i","e","r","s"," ","d","u"," ","l","a",
          "c"," ","s","t","-","l","o","u","i","s">>],
    [old |->
        <<"l","i","o","n","s"," ","l","a","c"," ","s","t","-","l","o","u",
          "i","s">>,
     new |->
        <<"l","i","o","n","s"," ","d","u"," ","l","a","c"," ","s","t","-",
          "l","o","u","i","s">>],
    [old |->
        <<"c","i","t","a","d","e","l","l","e","s"," ","r","o","u","y","n",
          "-","n","o","r","a","n","d","a">>,
     new |->
        <<"c","i","t","a","d","e","l","l","e","s"," ","d","e"," ","r","o",
          "u","y","n","-","n","o","r","a","n","d","a">>],
    [old |->
        <<"s","e","i","g","n","e","u","r","s"," ","m","i","l","l","e","-",
          "i_circ","l","e","s">>,
     new |->
        <<"s","e","i","g","n","e","u","r","s"," ","d","e","s"," ","m","i",
          "l","l","e","-","i_circ","l","e","s">>],
    [old |->
        <<"c","o","n","q","u","e_acute","r","a","n","t","s"," ","b","a","s",
          "s","e","s","-","l","a","u","r","e","n","t","i","d","e","s">>,
     new |->
        <<"c","o","n","q","u","e_acute","r","a","n","t","s"," ","b","a","s",
          "s","e","s","-","l","a","u","r","e","n","t","i","d","e","s">>],
    [old |->
        <<"f","o","r","e","s","t","i","e","r","s"," ","a","b","i","t","i",
          "b","i","-","t","e_acute","m","i","s","c","a","m","i","n","g">>,
     new |->
        <<"f","o","r","e","s","t","i","e","r","s"," ","a","b","i","t","i",
          "b","i","-","t","e_acute","m","i","s","c","a","m","i","n","g">>]>>

\* old in name
IsSubstring(old, name) ==
    \E i \in 0..(Len(name) - Len(old)) : SubSeq(name, i + 1, i + Len(old)) = old

normalize_team_name(name) ==
    LET lowered == Lower(name)
        found == {k \in 1..Len(replacements) : IsSubstring(replacements[k].old, lowered)}
    IN  IF found = {} THEN lowered
        ELSE replacements[CHOOSE k \in found : \A m \in found : k <= m].new

(***************************************************************************)
(* DivisionAssigner.assign_divisions: the body of the loop over the teams.  *)
(* team_to_division is the sequence of the items of the dict, each          *)
(* [name, division]; None is NoDivision, falsy like the empty label.        *)
(***************************************************************************)
NoDivision == ""

Unknown == "Unknown"

\* lines 1018-1021
RECURSIVE ExactMatch(_, _, _)
ExactMatch(team_name, team_to_division, k) ==
    IF k > Len(team_to_division) THEN NoDivision
    ELSE IF normalize_team_name(team_name) = normalize_team_name(team_to_division[k].name)
         THEN team_to_division[k].division
    ELSE ExactMatch(team_name, team_to_division, k + 1)

\* lines 1025-1029
RECURSIVE BestMatch(_, _, _, _)
BestMatch(team_name, team_to_division, k, best) ==
    IF k > Len(team_to_division) THEN best
    ELSE LET score == similarity(normalize_team_name(team_name),
                                 normalize_team_name(team_to_division[k].name))
         IN  BestMatch(team_name, team_to_division, k + 1,
                       IF ScoreGreater(score, best.score)
                       THEN [score |-> score, division |-> team_to_division[k].division]
                       ELSE best)

\* a slip: a best score of exactly 0.7 is accepted
AtLeastThreshold(score) == ~ScoreGreater([num |-> 7, den |-> 10], score)

\* line 1031: best_match_score > 0.7
AboveThreshold(score) == ScoreGreater(score, [num |-> 7, den |-> 10])

\* lines 1012-1041: the division written to team['division']
DivisionOf(team_name, team_to_division) ==
    LET exact == ExactMatch(team_name, team_to_division, 1)
        best == BestMatch(team_name, team_to_division, 1,
                          [score |-> [num |-> 0, den |-> 1], division |-> NoDivision])
        division_found ==
            IF exact # NoDivision THEN exact
            ELSE IF AboveThreshold(best.score) THEN best.division
            ELSE NoDivision
    IN  IF division_found # NoDivision THEN division_found ELSE Unknown

\* one iteration of the loop of line 1011
AssignDivision ==
    /\ ~dv.saved
    /\ dv.i < Len(dv.teams)
    /\ dv' = [dv EXCEPT !.i = dv.i + 1,
                        !.teams[dv.i + 1].division =
                            DivisionOf(dv.teams[dv.i + 1].name, dv.team_to_division)]

\* lines 1044-1045: teams.json is written when the loop is over
SaveTeams ==
    /\ ~dv.saved
    /\ dv.i = Len(dv.teams)
    /\ dv' = [dv EXCEPT !.saved = TRUE]

(***************************************************************************)
(* The team names and the reference mappings the assigner is run on.        *)
(***************************************************************************)
MaxDivTeams == 2

PHENIX_E ==
    <<"P","H","E_ACUTE","N","I","X">>

Phenix_e ==
    <<"P","h","e_acute","n","i","x">>

Phenix ==
    <<"P","h","e","n","i","x">>

Phenyx ==
    <<"P","h","e","n","y","x">>

Lions_Lac ==
    <<"L","i","o","n","s"," ","L","a","c"," ","S","t","-","L","o","u","i",
      "s">>

Lions_du_Lac ==
    <<"L","i","o","n","s"," ","d","u"," ","L","a","c"," ","S","t","-","L",
      "o","u","i","s">>

Lions_Lac_Loui ==
    <<"L","i","o","n","s"," ","L","a","c"," ","S","t","-","L","o","u","i">>

Braves_Sud ==
    <<"B","r","a","v","e","s"," ","S","u","d">>

Braves_Lac ==
    <<"B","r","a","v","e","s"," ","L","a","c">>

Gaulois_Hyacinthe ==
    <<"G","a","u","l","o","i","s"," ","S","t","-","H","y","a","c","i","n",
      "t","h","e">>

Gaulois_Jean ==
    <<"G","a","u","l","o","i","s"," ","S","t","-","J","e","a","n"," ","N",
      "o","r","d">>

Wxyz ==
    <<"W","x","y","z">>

TeamNames == {PHENIX_E, Phenix, Lions_Lac, Braves_Sud, Gaulois_Hyacinthe, Wxyz}

Ref(name, division) == [name |-> name, division |-> division]

ReferenceMappings ==
    { <<>>,
      <<Ref(Phenix_e, "Division 1"), Ref(Phenyx, "Division 2")>>,
      <<Ref(Phenyx, "Division 2"), Ref(Phenix_e, "Division 1")>>,
      <<Ref(Lions_Lac_Loui, "Division 1"), Ref(Lions_du_Lac, "Division 2")>>,
      <<Ref(Gaulois_Jean, "Division 1")>>,
      <<Ref(Braves_Lac, "Division 2"), Ref(Gaulois_Jean, "Division 1"),
        Ref(Phenix_e, "Division 1")>> }

\* teams.json as save_data wrote it: no team has a division yet
DivInit ==
    \E names \in SeqsUpTo(TeamNames, MaxDivTeams), refs \in ReferenceMappings :
        dv = [team_to_division |-> refs,
              teams |-> [k \in 1..Len(names) |-> [name |-> names[k], division |-> NoDivision]],
              i |-> 0, saved |-> FALSE]

\* the division assigner alone
InitDiv == DivInit /\ nn = Idle /\ pp = Idle /\ fd = Idle /\ CompilerIdle

NextDiv ==
    \/ AssignDivision /\ UNCHANGED <<nn, pp, fd, compilerVars>>
    \/ SaveTeams /\ UNCHANGED <<nn, pp, fd, compilerVars>>

SpecDiv == InitDiv /\ [][NextDiv]_vars

(***************************************************************************)
(* Properties of the division assigner                                      *)
(***************************************************************************)
\* the references whose normalized name is the team's normalized name
ExactRefs(k) ==
    {r \in 1..Len(dv.team_to_division) :
        normalize_team_name(dv.team_to_division[r].name) = normalize_team_name(dv.teams[k].name)}

RefScore(k, r) ==
    similarity(normalize_team_name(dv.teams[k].name),
               normalize_team_name(dv.team_to_division[r].name))

\* the references no other reference is more similar to the team than
BestRefs(k) ==
    {r \in 1..Len(dv.team_to_division) :
        \A q \in 1..Len(dv.team_to_division) :
            RefScore(k, q).num * RefScore(k, r).den <= RefScore(k, r).num * RefScore(k, q).den}

\* C10: a team whose normalized name equals a normalized reference name has
\* that reference's division; any other team has the division of a most
\* similar reference if that similarity is strictly greater than 0.70 and
\* "Unknown" otherwise; when teams.json is written every team has a division.
C10_DecisionRule ==
    /\ \A k \in 1..dv.i :
        LET division == dv.teams[k].division
            refs == dv.team_to_division
        IN  IF ExactRefs(k) # {}
            THEN \E r \in ExactRefs(k) : division = refs[r].division
            ELSE IF \E r \in BestRefs(k) : 10 * RefScore(k, r).num > 7 * RefScore(k, r).den
            THEN \E r \in BestRefs(k) : division = refs[r].division
            ELSE division = Unknown
    /\ dv.saved =>
        /\ dv.i = Len(dv.teams)
        /\ \A k \in 1..Len(dv.teams) : dv.teams[k].division # NoDivision

\* teams.json written with a team matched exactly (through a name variant or
\* the letter case) and a team whose best similarity is exactly 0.65
C10_Witness ==
    /\ dv.saved
    /\ \E k \in 1..Len(dv.teams) :
        /\ ExactRefs(k) # {}
        /\ dv.teams[k].name \in {Lions_Lac, PHENIX_E}
        /\ dv.teams[k].division \in {"Division 1", "Division 2"}
    /\ \E k \in 1..Len(dv.teams) :
        /\ ExactRefs(k) = {}
        /\ \E r \in BestRefs(k) : 20 * RefScore(k, r).num = 13 * RefScore(k, r).den
        /\ dv.teams[k].division = Unknown


(***************************************************************************)
(* FormationDetector.  team_formations maps a team id to its team_data; a   *)
(* counter (a defaultdict of stats) is [keys, val]: keys in the order of    *)
(* insertion, val the stats of each key.  A unit key is the sorted tuple of *)
(* its players' ids.                                                        *)
(***************************************************************************)
NoStats == [goals |-> 0, assists |-> 0, points |-> 0]

EmptyCounter == [keys |-> <<>>, val |-> EmptyDict]

\* lines 1067-1075: the team_data a first access creates
NewTeamData ==
    [even_strength_f_trios |-> EmptyCounter, even_strength_f_pairs |-> EmptyCounter,
     even_strength_d_duos |-> EmptyCounter, powerplay_units |-> EmptyCounter,
     penalty_kill_units |-> EmptyCounter, goal_scoring_pairs |-> EmptyCounter,
     player_positions |-> EmptyDict]

TeamData(team_formations, team_id) ==
    IF Has(team_formations, team_id) THEN team_formations[team_id] ELSE NewTeamData

StatsOf(counter, key) == IF Has(counter.val, key) THEN counter.val[key] ELSE NoStats

SetStats(counter, key, stats) ==
    [keys |-> IF Has(counter.val, key) THEN counter.keys ELSE Append(counter.keys, key),
     val |-> Put(counter.val, key, stats)]

\* sorted(.) on a list of ids
Sorted(s) ==
    LET rank(i) == 1 + Cardinality({j \in 1..Len(s) : s[j] < s[i] \/ (s[j] = s[i] /\ j < i)})
    IN  [k \in 1..Len(s) |-> s[CHOOSE i \in 1..Len(s) : rank(i) = k]]

\* itertools.combinations(s, r), in its order
RECURSIVE Combinations(_, _)
Combinations(s, r) ==
    IF r = 0 THEN << <<>> >>
    ELSE IF Len(s) < r THEN <<>>
    ELSE LET with == Combinations(Tail(s), r - 1)
         IN  [k \in 1..Len(with) |-> <<Head(s)>> \o with[k]] \o Combinations(Tail(s), r)

(***************************************************************************)
(* FormationDetector._build_position_map                                    *)
(***************************************************************************)
\* lines 1103-1122, one roster entry
PositionEntry(team_formations, team_id, player) ==
    LET position == IF player.positions = <<>> THEN "F" ELSE player.positions[1]
        team_data == TeamData(team_formations, team_id)
        info == [name |-> player.fullName,
                 position |-> IF position = "C" THEN "F" ELSE position,
                 number |-> player.number]
    IN  IF player.participantId = 0 THEN team_formations
        ELSE IF position \notin {"F", "D", "G", "C"} THEN team_formations
        ELSE Put(team_formations, team_id,
                 [team_data EXCEPT !.player_positions = Put(@, player.participantId, info)])

\* (the test of emptiness has the tables evaluated before the next step)
RECURSIVE PositionRoster(_, _, _, _)
PositionRoster(team_formations, team_id, roster, k) ==
    IF k > Len(roster) THEN team_formations
    ELSE LET next == PositionEntry(team_formations, team_id, roster[k])
         IN  IF DOMAIN next = {} THEN PositionRoster(EmptyDict, team_id, roster, k + 1)
             ELSE PositionRoster(next, team_id, roster, k + 1)

_build_position_map(team_formations, game) ==
    IF Len(game.bteams) < 2 THEN team_formations
    ELSE PositionRoster(
             PositionRoster(team_formations, game.bteams[1].id, game.home_team_roster, 1),
             game.bteams[2].id, game.away_team_roster, 1)

(***************************************************************************)
(* FormationDetector._detect_even_strength_formations, _detect_powerplay_   *)
(* units, _detect_penalty_kill_units                                        *)
(***************************************************************************)
\* the scorer or an assist of the goal is a player of the unit
Involved(key, goal) ==
    \/ goal.participantId \in Range(key)
    \/ \E k \in 1..Len(goal.assists) :
          goal.assists[k].participantId # 0 /\ goal.assists[k].participantId \in Range(key)

\* a slip: one assist at most is counted for a goal
CreditedOneAssist(stats, key, goal) ==
    LET scored == IF goal.participantId \in Range(key) THEN 1 ELSE 0
        assisted == IF \E k \in 1..Len(goal.assists) :
                            goal.assists[k].participantId # 0
                            /\ goal.assists[k].participantId \in Range(key)
                    THEN 1 ELSE 0
    IN  [goals |-> stats.goals + scored, assists |-> stats.assists + assisted,
         points |-> stats.goals + scored + stats.assists + assisted]

\* goals += 1 for the scorer, assists += 1 for each assist, points their sum
Credited(stats, key, goal) ==
    LET scored == IF goal.participantId \in Range(key) THEN 1 ELSE 0
        assisted == Len(SelectSeq(goal.assists,
                        LAMBDA a : a.participantId # 0 /\ a.participantId \in Range(key)))
    IN  [goals |-> stats.goals + scored, assists |-> stats.assists + assisted,
         points |-> stats.goals + scored + stats.assists + assisted]

RECURSIVE CreditCombinations(_, _, _, _)
CreditCombinations(counter, combos, goal, k) ==
    IF k > Len(combos) THEN counter
    ELSE LET key == Sorted(combos[k])
         IN  CreditCombinations(
                 IF Involved(key, goal)
                 THEN SetStats(counter, key, Credited(StatsOf(counter, key), key, goal))
                 ELSE counter,
                 combos, goal, k + 1)

_detect_even_strength_formations(team_data, forwards, defensemen, goal) ==
    [team_data EXCEPT
        !.even_strength_f_trios =
            IF Len(forwards) >= 3
            THEN CreditCombinations(@, Combinations(forwards, 3), goal, 1) ELSE @,
        !.even_strength_f_pairs =
            IF Len(forwards) >= 2
            THEN CreditCombinations(@, Combinations(forwards, 2), goal, 1) ELSE @,
        !.even_strength_d_duos =
            IF Len(defensemen) >= 2
            THEN CreditCombinations(@, Combinations(defensemen, 2), goal, 1) ELSE @]

_detect_powerplay_units(team_data, players_in, goal) ==
    LET unit_key == Sorted(players_in)
    IN  [team_data EXCEPT !.powerplay_units =
            SetStats(@, unit_key, Credited(StatsOf(@, unit_key), unit_key, goal))]

_detect_penalty_kill_units(team_data, players_in, goal) ==
    LET unit_key == Sorted(players_in)
    IN  [team_data EXCEPT !.penalty_kill_units =
            SetStats(@, unit_key, Credited(StatsOf(@, unit_key), unit_key, goal))]

(***************************************************************************)
(* FormationDetector._detect_formations_in_goal, _analyze_goals             *)
(***************************************************************************)
_detect_formations_in_goal(team_formations, team_id, players_involved, goal) ==
    IF Len(players_involved) < 2 THEN team_formations
    ELSE
    LET team_data == TeamData(team_formations, team_id)
        positioned_players ==
            SelectSeq(players_involved, LAMBDA p : Has(team_data.player_positions, p))
        forwards == SelectSeq(positioned_players,
                        LAMBDA p : team_data.player_positions[p].position = "F")
        defensemen == SelectSeq(positioned_players,
                        LAMBDA p : team_data.player_positions[p].position = "D")
    IN  Put(team_formations, team_id,
            IF Len(positioned_players) < 2 THEN team_data
            ELSE IF goal.isPowerplay
                 THEN _detect_powerplay_units(team_data, positioned_players, goal)
            ELSE IF goal.isShorthanded
                 THEN _detect_penalty_kill_units(team_data, positioned_players, goal)
            ELSE _detect_even_strength_formations(team_data, forwards, defensemen, goal))

\* lines 1143-1153: the primary assist and the scorer
CountScoringPair(team_formations, goal) ==
    IF goal.assists = <<>> THEN team_formations
    ELSE IF goal.assists[1].participantId = 0 THEN team_formations
    ELSE LET team_data == TeamData(team_formations, goal.teamId)
             pair_key == Sorted(<<goal.assists[1].participantId, goal.participantId>>)
             count == IF Has(team_data.goal_scoring_pairs.val, pair_key)
                      THEN team_data.goal_scoring_pairs.val[pair_key].goals ELSE 0
         IN  Put(team_formations, goal.teamId,
                 [team_data EXCEPT !.goal_scoring_pairs =
                     SetStats(@, pair_key, [goals |-> count + 1])])

\* lines 1128-1160, one goal
AnalyzeGoal(team_formations, goal) ==
    LET assist_ids == [k \in 1..Len(goal.assists) |-> goal.assists[k].participantId]
        players_involved == <<goal.participantId>> \o SelectSeq(assist_ids, LAMBDA a : a # 0)
    IN  IF goal.teamId = 0 THEN team_formations
        ELSE IF goal.participantId = 0 THEN team_formations
        ELSE _detect_formations_in_goal(CountScoringPair(team_formations, goal),
                                        goal.teamId, players_involved, goal)

RECURSIVE AnalyzeGoalsFrom(_, _, _)
AnalyzeGoalsFrom(team_formations, goals, k) ==
    IF k > Len(goals) THEN team_formations
    ELSE LET next == AnalyzeGoal(team_formations, goals[k])
         IN  IF DOMAIN next = {} THEN AnalyzeGoalsFrom(EmptyDict, goals, k + 1)
             ELSE AnalyzeGoalsFrom(next, goals, k + 1)

_analyze_goals(team_formations, game) == AnalyzeGoalsFrom(team_formations, game.goals, 1)

\* lines 1081-1086: one game of the loop of analyze_formations
AnalyzeGame(team_formations, game) ==
    IF ~game.has_boxscore THEN team_formations
    ELSE _analyze_goals(_build_position_map(team_formations, game), game)

RECURSIVE AnalyzeGamesFrom(_, _, _)
AnalyzeGamesFrom(team_formations, gs, k) ==
    IF k > Len(gs) THEN team_formations
    ELSE LET next == AnalyzeGame(team_formations, gs[k])
         IN  IF DOMAIN next = {} THEN AnalyzeGamesFrom(EmptyDict, gs, k + 1)
             ELSE AnalyzeGamesFrom(next, gs, k + 1)

\* analyze_formations on a detector whose team_formations is given
analyze_formations(team_formations, gs) == AnalyzeGamesFrom(team_formations, gs, 1)


(***************************************************************************)
(* FormationDetector: the ranked report of a team                           *)
(***************************************************************************)
\* the keys of a counter whose stats have goals > 0, in the order of the dict
Scoring(counter) == SelectSeq(counter.keys, LAMBDA key : counter.val[key].goals > 0)

\* [player_positions[id] for id in key if id in player_positions]
PlayersOf(team_data, key) ==
    LET known == SelectSeq(key, LAMBDA p : Has(team_data.player_positions, p))
    IN  [k \in 1..Len(known) |-> team_data.player_positions[known[k]]]

\* list.sort(key=..., reverse=True): descending on the pairs keys[i], lines of
\* equal key in their order
SortDescending(s, keys) ==
    LET above(j, i) == \/ keys[j][1] > keys[i][1]
                       \/ keys[j][1] = keys[i][1] /\ keys[j][2] > keys[i][2]
        rank(i) == 1 + Cardinality({j \in 1..Len(s) :
                            above(j, i) \/ (keys[j] = keys[i] /\ j < i)})
    IN  [k \in 1..Len(s) |-> s[CHOOSE i \in 1..Len(s) : rank(i) = k]]

\* a slip: one more than n is kept
TopOneMore(s, n) == SubSeq(s, 1, IF Len(s) < n + 1 THEN Len(s) ELSE n + 1)

\* formations[:n]
Top(s, n) == SubSeq(s, 1, IF Len(s) < n THEN Len(s) ELSE n)

RECURSIVE SumPoints(_)
SumPoints(formations_list) ==
    IF formations_list = <<>> THEN 0
    ELSE Head(formations_list).points + SumPoints(Tail(formations_list))

\* round((raw_score / total_score) * 100, 1), in tenths; a half goes to the
\* even tenth (as the float does for every total below 80)
DominanceScore(raw_score, total_score) ==
    LET q == (1000 * raw_score) \div total_score
        r == (1000 * raw_score) % total_score
    IN  IF 2 * r > total_score \/ (2 * r = total_score /\ q % 2 = 1) THEN q + 1 ELSE q

_calculate_dominance_scores(formations_list) ==
    LET total_score == SumPoints(formations_list)
    IN  [k \in 1..Len(formations_list) |->
            [players |-> formations_list[k].players, goals |-> formations_list[k].goals,
             assists |-> formations_list[k].assists, points |-> formations_list[k].points,
             type |-> formations_list[k].type, key |-> formations_list[k].key,
             raw_score |-> formations_list[k].points,
             dominance_score |-> IF total_score > 0
                                 THEN DominanceScore(formations_list[k].points, total_score)
                                 ELSE 0]]

\* the keys of player_connections, in the order of insertion (lines 1410-1419)
RECURSIVE ConnectedPlayers(_, _, _)
ConnectedPlayers(pair_keys, k, seen) ==
    IF k > Len(pair_keys) THEN seen
    ELSE LET p1 == pair_keys[k][1]
             p2 == pair_keys[k][2]
             with1 == IF p1 \in Range(seen) THEN seen ELSE Append(seen, p1)
             with2 == IF p2 \in Range(with1) THEN with1 ELSE Append(with1, p2)
         IN  ConnectedPlayers(pair_keys, k + 1, with2)

\* max(stats_list, key=lambda s: s['points']): the first of the largest
FirstBest(stats_list) ==
    stats_list[CHOOSE i \in 1..Len(stats_list) :
        /\ \A j \in 1..Len(stats_list) : stats_list[j].points <= stats_list[i].points
        /\ \A j \in 1..(i-1) : stats_list[j].points < stats_list[i].points]

\* lines 1418-1465: the triangles p1 < p2 < p3 in the order of the three loops
RECURSIVE DeduceFrom(_, _, _, _, _)
DeduceFrom(pairs_dict, team_data, triples, k, found) ==
    IF k > Len(triples) THEN found
    ELSE
    LET p1 == triples[k][1]
        p2 == triples[k][2]
        p3 == triples[k][3]
        connected == Range(Scoring(pairs_dict))
        pair_keys == <<Sorted(<<p1, p2>>), Sorted(<<p1, p3>>), Sorted(<<p2, p3>>)>>
        best_stats == FirstBest([i \in 1..3 |-> pairs_dict.val[pair_keys[i]]])
        players_info == PlayersOf(team_data, Sorted(<<p1, p2, p3>>))
        trio == [players |-> players_info, goals |-> best_stats.goals,
                 assists |-> best_stats.assists, points |-> best_stats.points,
                 type |-> "deduced_trio", key |-> Sorted(<<p1, p2, p3>>)]
    IN  DeduceFrom(pairs_dict, team_data, triples, k + 1,
            IF \E i \in 1..3 : pair_keys[i] \notin connected THEN found
            ELSE IF \E i \in 1..3 : pair_keys[i] \in found.used_pairs THEN found
            ELSE IF Len(players_info) # 3 THEN found
            ELSE [deduced_trios |-> Append(found.deduced_trios, trio),
                  used_pairs |-> found.used_pairs \cup Range(pair_keys)])

_detect_deduced_trios(pairs_dict, team_data) ==
    DeduceFrom(pairs_dict, team_data,
               Combinations(ConnectedPlayers(Scoring(pairs_dict), 1, <<>>), 3), 1,
               [deduced_trios |-> <<>>, used_pairs |-> {}])

\* a line of the candidates, from a counter
LineOf(team_data, counter, key, type) ==
    [players |-> PlayersOf(team_data, key), goals |-> counter.val[key].goals,
     assists |-> counter.val[key].assists, points |-> counter.val[key].points,
     type |-> type, key |-> key]

\* lines 1476-1495: the trios counted directly
DirectTrios(team_data) ==
    LET keys == SelectSeq(Scoring(team_data.even_strength_f_trios),
                          LAMBDA key : Len(PlayersOf(team_data, key)) = 3)
    IN  [k \in 1..Len(keys) |-> LineOf(team_data, team_data.even_strength_f_trios, keys[k], "trio")]

\* a slip: the deduced trio also wins a tie
ReplacesOnTie(deduced_trio, existing_trio) == deduced_trio.points >= existing_trio.points

\* line 1522: deduced_trio['points'] > existing_trio['points']
Replaces(deduced_trio, existing_trio) == deduced_trio.points > existing_trio.points

\* lines 1503-1527: a deduced trio is added, or replaces the direct trio of
\* the same key if it has more points
RECURSIVE AddDeduced(_, _, _, _)
AddDeduced(lines, existing_trio_keys, deduced_trios, k) ==
    IF k > Len(deduced_trios) THEN lines
    ELSE LET deduced_trio == deduced_trios[k]
             existing_index ==
                 CHOOSE i \in 1..Len(lines) :
                     /\ lines[i].key = deduced_trio.key
                     /\ \A j \in 1..(i-1) : lines[j].key # deduced_trio.key
         IN  AddDeduced(
                 IF deduced_trio.key \notin existing_trio_keys THEN Append(lines, deduced_trio)
                 ELSE IF Replaces(deduced_trio, lines[existing_index])
                      THEN [lines EXCEPT ![existing_index] = deduced_trio]
                 ELSE lines,
                 existing_trio_keys, deduced_trios, k + 1)

\* lines 1529-1547: the pairs that are in no deduced trio
StandalonePairs(team_data, used_pair_keys) ==
    LET keys == SelectSeq(Scoring(team_data.even_strength_f_pairs),
                    LAMBDA key : key \notin used_pair_keys
                                 /\ Len(PlayersOf(team_data, key)) = 2)
    IN  [k \in 1..Len(keys) |-> LineOf(team_data, team_data.even_strength_f_pairs, keys[k], "pair")]

\* lines 1471-1549: the lines before they are sorted and cut
ForwardLineCandidates(team_data) ==
    LET direct == DirectTrios(team_data)
        deduced == _detect_deduced_trios(team_data.even_strength_f_pairs, team_data)
        trios == AddDeduced(direct, {direct[k].key : k \in 1..Len(direct)},
                            deduced.deduced_trios, 1)
    IN  _calculate_dominance_scores(
            trios \o StandalonePairs(team_data, deduced.used_pairs))

\* lines 1552-1566 (and 1631-1643): sorted, the first n, ranked, without key
Ranked(formations_list, n, label) ==
    LET sorted == SortDescending(formations_list,
                      [k \in 1..Len(formations_list) |->
                          <<formations_list[k].points, formations_list[k].dominance_score>>])
        first == Top(sorted, n)
    IN  [k \in 1..Len(first) |->
            [players |-> first[k].players, goals |-> first[k].goals,
             assists |-> first[k].assists, points |-> first[k].points,
             type |-> first[k].type, raw_score |-> first[k].raw_score,
             dominance_score |-> first[k].dominance_score, rank |-> <<label, k>>]]

_get_ranked_forward_lines(team_data) == Ranked(ForwardLineCandidates(team_data), 3, "Line")

\* sorted by goals, the first n, ranked (lines 1589-1598, 1665-1675)
RankedByGoals(units, n, label) ==
    LET sorted == SortDescending(units, [k \in 1..Len(units) |-> <<units[k].goals, 0>>])
        first == Top(sorted, n)
    IN  [k \in 1..Len(first) |->
            [players |-> first[k].players, goals |-> first[k].goals,
             assists |-> first[k].assists, points |-> first[k].points,
             rank |-> <<label, k>>]]

_get_ranked_defense_pairs(team_data) ==
    LET keys == SelectSeq(Scoring(team_data.even_strength_d_duos),
                          LAMBDA key : Len(PlayersOf(team_data, key)) = 2)
    IN  RankedByGoals([k \in 1..Len(keys) |->
                          LineOf(team_data, team_data.even_strength_d_duos, keys[k], "pair")],
                      2, "D")

\* line 1616: forwards first, then by name
PowerplayOrder(players_in) ==
    LET group(p) == IF p.position \in {"LW", "C", "RW", "F"} THEN 0 ELSE 1
        before(a, b) == group(a) < group(b) \/ (group(a) = group(b) /\ StrLess(a.name, b.name))
        rank(i) == 1 + Cardinality({j \in 1..Len(players_in) :
                        before(players_in[j], players_in[i])
                        \/ (j < i /\ ~before(players_in[i], players_in[j]))})
    IN  [k \in 1..Len(players_in) |->
            players_in[CHOOSE i \in 1..Len(players_in) : rank(i) = k]]

_get_ranked_powerplay_units(team_data) ==
    LET keys == SelectSeq(Scoring(team_data.powerplay_units),
                          LAMBDA key : Len(PlayersOf(team_data, key)) >= 2)
        units == [k \in 1..Len(keys) |->
                    [LineOf(team_data, team_data.powerplay_units, keys[k], "powerplay")
                        EXCEPT !.players = PowerplayOrder(@)]]
    IN  Ranked(_calculate_dominance_scores(units), 3, "PP")

_get_ranked_penalty_kill_units(team_data) ==
    LET keys == SelectSeq(Scoring(team_data.penalty_kill_units),
                          LAMBDA key : Len(PlayersOf(team_data, key)) >= 2)
    IN  RankedByGoals([k \in 1..Len(keys) |->
                          LineOf(team_data, team_data.penalty_kill_units, keys[k], "unit")],
                      3, "PK")

_get_top_goal_scoring_pairs(team_data) ==
    LET keys == SelectSeq(Scoring(team_data.goal_scoring_pairs),
                          LAMBDA key : Len(PlayersOf(team_data, key)) = 2)
        pairs == [k \in 1..Len(keys) |->
                    [players |-> PlayersOf(team_data, keys[k]),
                     goals |-> team_data.goal_scoring_pairs.val[keys[k]].goals]]
    IN  Top(SortDescending(pairs, [k \in 1..Len(pairs) |-> <<pairs[k].goals, 0>>]), 5)

\* None for a team the detector has not seen
NoFormations == "None"

get_team_formations(team_formations, team_id) ==
    IF ~Has(team_formations, team_id) THEN NoFormations
    ELSE [forward_lines |-> _get_ranked_forward_lines(team_formations[team_id]),
          defense_pairs |-> _get_ranked_defense_pairs(team_formations[team_id]),
          powerplay_units |-> _get_ranked_powerplay_units(team_formations[team_id]),
          penalty_kill_units |-> _get_ranked_penalty_kill_units(team_formations[team_id]),
          goal_scoring_pairs |-> _get_top_goal_scoring_pairs(team_formations[team_id])]

\* export_formations: the report of every team of team_formations
formations_data(team_formations) ==
    [team_id \in DOMAIN team_formations |-> get_team_formations(team_formations, team_id)]


(***************************************************************************)
(* The detector as steps: analyze_formations one game at a time, then the   *)
(* export; analyze_formations may be called again on the same detector.     *)
(* fd = [games, team_formations, gi (the next game of the loop), calls (of  *)
(* analyze_formations), exported, report (the formations_data written)].    *)
(***************************************************************************)
MaxCalls == 2

AnalyzeFormationsStep ==
    /\ fd.gi <= Len(fd.games)
    /\ fd' = [fd EXCEPT !.team_formations = AnalyzeGame(@, fd.games[fd.gi]),
                        !.gi = fd.gi + 1]

ExportFormations ==
    /\ fd.gi > Len(fd.games)
    /\ fd' = [fd EXCEPT !.exported = TRUE,
                        !.report = formations_data(fd.team_formations)]

AnalyzeFormationsAgain ==
    /\ fd.gi > Len(fd.games)
    /\ fd.calls < MaxCalls
    /\ fd' = [fd EXCEPT !.gi = 1, !.calls = fd.calls + 1]

(***************************************************************************)
(* The batches the detector is run on.  Team 1: forwards 10, 11 (a centre), *)
(* 13, 14, defensemen 12, 15, goalie 30; team 2: forward 20, defenseman 21. *)
(***************************************************************************)
MaxFormationGames == 2

FormationRosterA ==
    <<Entry(10, "F", 10), Entry(11, "C", 11), Entry(12, "D", 12), Entry(13, "F", 13),
      Entry(14, "F", 14), Entry(15, "D", 15), Entry(30, "G", 1), Entry(90, "Head Coach", 0)>>

FormationGame(goals, home_roster) ==
    Game(TeamA, TeamB, 0, 0, goals, <<>>, home_roster, RosterB, NoHints)

\* even-strength goals of the pairs 10-11, 10-14, 11-14
PairsGame ==
    FormationGame(<<Goal(10, 1, FALSE, FALSE, <<11>>), Goal(10, 1, FALSE, FALSE, <<14>>),
                    Goal(11, 1, FALSE, FALSE, <<14>>)>>, FormationRosterA)

\* even-strength goals of the pairs 10-13, 11-13
MorePairsGame ==
    FormationGame(<<Goal(13, 1, FALSE, FALSE, <<10>>), Goal(13, 1, FALSE, FALSE, <<11>>)>>,
                  FormationRosterA)

\* the pairs 10-11, 11-13, 10-13 one goal each, and a defenseman's goal from
\* 10 and 11
TriangleGame ==
    FormationGame(<<Goal(10, 1, FALSE, FALSE, <<11>>), Goal(11, 1, FALSE, FALSE, <<13>>),
                    Goal(13, 1, FALSE, FALSE, <<10>>), Goal(12, 1, FALSE, FALSE, <<10, 11>>)>>,
                  FormationRosterA)

\* a goal of three forwards, a powerplay goal, a shorthanded goal, a goal of
\* two defensemen, a goal with both flags set, a goal of team 2
SpecialTeamsGame ==
    FormationGame(<<Goal(10, 1, FALSE, FALSE, <<11, 13>>), Goal(10, 1, TRUE, FALSE, <<11, 12>>),
                    Goal(13, 1, FALSE, TRUE, <<12>>), Goal(12, 1, FALSE, FALSE, <<15>>),
                    Goal(14, 1, TRUE, TRUE, <<10>>), Goal(20, 2, FALSE, FALSE, <<21>>)>>,
                  FormationRosterA)

\* 14 scores in a game whose roster does not list him; 13 is listed on defense
LateRosterGame ==
    FormationGame(<<Goal(14, 1, FALSE, FALSE, <<10>>), Goal(13, 1, FALSE, FALSE, <<12>>)>>,
                  <<Entry(10, "F", 10), Entry(12, "D", 12), Entry(13, "D", 13)>>)

\* more units of every kind than the report keeps: the six pairs of the four
\* forwards, three pairs of defensemen (16 dresses on defense), four powerplay
\* units and four penalty-kill units
BusyGame ==
    FormationGame(<<Goal(10, 1, FALSE, FALSE, <<11>>), Goal(13, 1, FALSE, FALSE, <<14>>),
                    Goal(10, 1, FALSE, FALSE, <<13>>), Goal(11, 1, FALSE, FALSE, <<14>>),
                    Goal(10, 1, FALSE, FALSE, <<11>>),
                    Goal(13, 1, FALSE, FALSE, <<11>>), Goal(14, 1, FALSE, FALSE, <<10>>),
                    Goal(12, 1, FALSE, FALSE, <<15>>), Goal(12, 1, FALSE, FALSE, <<16>>),
                    Goal(15, 1, FALSE, FALSE, <<16>>), Goal(15, 1, FALSE, FALSE, <<16>>),
                    Goal(10, 1, TRUE, FALSE, <<11>>), Goal(10, 1, TRUE, FALSE, <<13>>),
                    Goal(10, 1, TRUE, FALSE, <<14>>), Goal(11, 1, TRUE, FALSE, <<13>>),
                    Goal(11, 1, TRUE, FALSE, <<13>>),
                    Goal(10, 1, FALSE, TRUE, <<12>>), Goal(11, 1, FALSE, TRUE, <<12>>),
                    Goal(13, 1, FALSE, TRUE, <<12>>), Goal(14, 1, FALSE, TRUE, <<12>>),
                    Goal(14, 1, FALSE, TRUE, <<12>>)>>,
                  Append(FormationRosterA, Entry(16, "D", 16)))

\* 10, 11 and 13 score twice together: the trio 10-11-13 is counted directly
\* and each of its three pairs has a goal
TrioGame ==
    FormationGame(<<Goal(10, 1, FALSE, FALSE, <<11, 13>>), Goal(11, 1, FALSE, FALSE, <<13, 10>>)>>,
                  FormationRosterA)

\* special-teams goals: a powerplay goal by 10 alone, a powerplay goal by 10
\* from 11 and from 17, whom no roster lists, a shorthanded goal by 13 alone
UnitsGame ==
    FormationGame(<<Goal(10, 1, TRUE, FALSE, <<>>), Goal(10, 1, TRUE, FALSE, <<11, 17>>),
                    Goal(13, 1, FALSE, TRUE, <<>>)>>,
                  FormationRosterA)

FormationTemplates ==
    {PairsGame, MorePairsGame, TriangleGame, SpecialTeamsGame, LateRosterGame,
     ScenarioGame, MissingIdGame, NoBoxscoreGame, OneTeamGame, BusyGame, TrioGame, UnitsGame}

FormationBatches == SeqsUpTo(FormationTemplates, MaxFormationGames) \ {<<>>}

\* FormationDetector(games), analyze_formations called
FormationInit ==
    \E gs \in FormationBatches :
        fd = [games |-> gs, team_formations |-> EmptyDict, gi |-> 1, calls |-> 1,
              exported |-> FALSE, report |-> EmptyDict]

\* the formation detector alone
InitFormation == FormationInit /\ nn = Idle /\ pp = Idle /\ dv = Idle /\ CompilerIdle

NextFormation ==
    \/ AnalyzeFormationsStep /\ UNCHANGED <<nn, pp, dv, compilerVars>>
    \/ ExportFormations /\ UNCHANGED <<nn, pp, dv, compilerVars>>
    \/ AnalyzeFormationsAgain /\ UNCHANGED <<nn, pp, dv, compilerVars>>

SpecFormation == InitFormation /\ [][NextFormation]_vars

(***************************************************************************)
(* Properties of the formation detector                                     *)
(***************************************************************************)
\* C7: whatever the number of analyze_formations and export calls made on
\* the batch, the report written is the report of one inference run on it:
\* same lines, members, goals, assists, points, dominance scores, ranks.
C7_SecondRunSameReport ==
    fd.exported => fd.report = formations_data(analyze_formations(EmptyDict, fd.games))

\* the forward pairs of a..b..c, each with goals > 0, and no trio a-b-c counted
Triangle(team_data, a, b, c) ==
    /\ a < b /\ b < c
    /\ {<<a, b>>, <<a, c>>, <<b, c>>} \subseteq Range(Scoring(team_data.even_strength_f_pairs))
    /\ ~Has(team_data.even_strength_f_trios.val, <<a, b, c>>)

\* C8: when the pair counters of A-B, A-C and B-C each have goals > 0 and no
\* trio A-B-C was counted, the forward lines hold exactly one deduced trio
\* A-B-C, with the goals, assists and points of a pair of highest points
\* among the three, and none of the three pairs as a line of type pair.
C8_TrioDeduction ==
    fd.gi > Len(fd.games) =>
        \A t \in DOMAIN fd.team_formations :
            LET team_data == fd.team_formations[t]
                pairs == team_data.even_strength_f_pairs
                lines == _get_ranked_forward_lines(team_data)
                ids == UNION {Range(key) : key \in Range(pairs.keys)}
            IN  \A a, b, c \in ids :
                    Triangle(team_data, a, b, c) =>
                        LET three == {<<a, b>>, <<a, c>>, <<b, c>>}
                            best == {p \in three :
                                        \A q \in three : pairs.val[q].points <= pairs.val[p].points}
                            deduced == {k \in 1..Len(lines) :
                                           /\ lines[k].type = "deduced_trio"
                                           /\ lines[k].players = PlayersOf(team_data, <<a, b, c>>)}
                        IN  /\ Cardinality(deduced) = 1
                            /\ \A k \in deduced : \E p \in best :
                                  /\ lines[k].goals = pairs.val[p].goals
                                  /\ lines[k].assists = pairs.val[p].assists
                                  /\ lines[k].points = pairs.val[p].points
                            /\ \A p \in three : \A k \in 1..Len(lines) :
                                  ~(lines[k].type = "pair"
                                    /\ lines[k].players = PlayersOf(team_data, p))

(***************************************************************************)
(* Properties of the emitted lists                                          *)
(***************************************************************************)
TeamsInOrder(teams_list) ==
    \A i \in 1..(Len(teams_list) - 1) :
        LET x == teams_list[i]
            y == teams_list[i + 1]
        IN  \/ x.points > y.points
            \/ x.points = y.points /\ x.goal_differential > y.goal_differential
            \/ x.points = y.points /\ x.goal_differential = y.goal_differential
                  /\ ~StrLess(y.name, x.name)

PlayersInOrder(players_list) ==
    \A i \in 1..(Len(players_list) - 1) :
        LET x == players_list[i]
            y == players_list[i + 1]
        IN  \/ x.points > y.points
            \/ x.points = y.points /\ x.goals > y.goals
            \/ x.points = y.points /\ x.goals = y.goals /\ ~StrLess(y.name, x.name)

\* the runs on a permutation of the batch that end with the same two tables
SameTotalsRuns ==
    {R \in {process_games(gs) : gs \in Reorderings(games)} :
        ~R.err /\ R.teams = teams /\ R.players = players}

\* C11: the emitted team list is in (points descending, goal_differential
\* descending, name ascending) order and the emitted player list in (points
\* descending, goals descending, name ascending) order, each holding every row
\* once, and a run that ends with the same totals emits the same two lists
C11_OutputOrdering ==
    pc = "saved" =>
        /\ TeamsInOrder(saved.teams_list)
        /\ Range(saved.teams_list) = Range([i \in 1..Len(team_keys) |-> teams[team_keys[i]]])
        /\ Len(saved.teams_list) = Cardinality(DOMAIN teams)
        /\ PlayersInOrder(saved.players_list)
        /\ Range(saved.players_list) = Range([i \in 1..Len(player_keys) |-> players[player_keys[i]]])
        /\ Len(saved.players_list) = Cardinality(DOMAIN players)
        /\ \A R \in SameTotalsRuns : save_data(R) = saved

(***************************************************************************)
(* Properties of the ledger on incomplete and malformed records             *)
(***************************************************************************)
\* the game without its events that lack an identity: goals without scorer id
\* or team id, assists without participant id, penalties without player id or
\* team id, roster entries without participant id
Identified(game) ==
    LET goals == SelectSeq(game.goals, LAMBDA g : g.participantId # 0 /\ g.teamId # 0)
    IN  [game EXCEPT
            !.goals = [i \in 1..Len(goals) |->
                          [goals[i] EXCEPT !.assists =
                              SelectSeq(@, LAMBDA a : a.participantId # 0)]],
            !.penalties = SelectSeq(@, LAMBDA p : p.participantId # 0 /\ p.teamId # 0),
            !.home_team_roster = SelectSeq(@, LAMBDA e : e.participantId # 0),
            !.away_team_roster = SelectSeq(@, LAMBDA e : e.participantId # 0)]

IdentifiedRun == process_games([i \in 1..Len(games) |-> Identified(games[i])])

\* C12: the finished run leaves the team table and the player table that the
\* batch without its events lacking an identity leaves: such an event changes
\* no total, and every other event and game is counted
C12_MissingIdentitySkip ==
    pc = "done" =>
        /\ ~IdentifiedRun.err
        /\ IdentifiedRun.teams = teams
        /\ IdentifiedRun.players = players

\* C13: process_games raises on no batch: the run never stops in an exception,
\* whatever team ids the goals and penalties carry and whether or not the
\* games have scores
C13_AggregateAndContinue == pc # "error"

\* the games of the batch that process_games does not skip
WellFormedGames == SelectSeq(games, LAMBDA g : g.has_boxscore /\ Len(g.bteams) >= 2)

\* C14: the finished run leaves the team table and the player table that the
\* batch without its malformed games (no boxscore, fewer than two teams)
\* leaves: a malformed game creates and updates no row, and the other games
\* are aggregated as they are without it
C14_MalformedGameSkip ==
    pc = "done" =>
        /\ ~process_games(WellFormedGames).err
        /\ process_games(WellFormedGames).teams = teams
        /\ process_games(WellFormedGames).players = players

(***************************************************************************)
(* Properties of the goalie-start resolver                                  *)
(***************************************************************************)
\* the starter names a game's hints give (either format)
GivenHints(game) == {n \in Range(game.starting_goalies.names) : n # <<>>}

\* C15: for a game whose hints name at least one starter, is_starting_goalie
\* answers true exactly when the normalized candidate name equals the
\* normalized name of one of the hints, whatever the roster holds
C15_HintsAuthoritative ==
    (pc = "asked" /\ GivenHints(games[1]) # {}) =>
        asked.result = (\E h \in GivenHints(games[1]) :
                            normalize_name(h) = normalize_name(asked.player_name))

\* a named starter whom the roster order alone would not have credited
C15_Witness ==
    /\ pc = "asked" /\ GivenHints(games[1]) # {}
    /\ asked.result
    /\ ~_is_likely_starting_goalie(asked.player_name, asked.team_id, games[1])

\* the goalies of the asked team's roster that have an id and a name
IdentifiedGoalies(game, team_id) ==
    {e \in Range(IF team_id = game.bteams[1].id
                 THEN game.home_team_roster ELSE game.away_team_roster) :
        "G" \in Range(e.positions) /\ e.participantId # 0 /\ e.fullName # <<>>}

\* the goalie with the lowest valid (non-zero) jersey number
LowestNumbered(goalies) ==
    CHOOSE g \in goalies : g.number # 0 /\ \A h \in goalies : h.number # 0 => g.number <= h.number

\* C16: in a game without hints, for a roster with several identified goalies
\* of whom at least one has a valid jersey number, a goalie of the roster is
\* resolved as starter exactly if he is the one with the lowest valid number,
\* in whatever order the roster lists the goalies
C16_RosterOrderFallback ==
    (/\ pc = "asked" /\ games[1].starting_goalies.format = "none"
     /\ Cardinality(IdentifiedGoalies(games[1], asked.team_id)) > 1
     /\ \E g \in IdentifiedGoalies(games[1], asked.team_id) : g.number # 0) =>
        \A g \in IdentifiedGoalies(games[1], asked.team_id) :
            g.fullName = asked.player_name =>
                asked.result = (g = LowestNumbered(IdentifiedGoalies(games[1], asked.team_id)))

\* the sides (1 home, 2 away) of the game on whose roster the player stands as
\* a goalie whom is_starting_goalie resolves as starter
StartingSides(player_id, game) ==
    {side \in {1, 2} :
        \E e \in Range(IF side = 1 THEN game.home_team_roster ELSE game.away_team_roster) :
            /\ e.participantId = player_id /\ e.fullName # <<>>
            /\ get_player_position(player_positions, player_id) = "G"
            /\ is_starting_goalie(starting_goalies, game.id, e.fullName,
                                  game.bteams[side].id, game)}

\* what the step has added to a field of the player's row
Added(player_id, field) ==
    players'[player_id][field] - (IF Has(players, player_id) THEN players[player_id][field] ELSE 0)

\* one game of the loop has been aggregated, without an exception
GameAggregated ==
    /\ pc = "loop" /\ pc' = "loop" /\ gi' = gi + 1
    /\ games[gi].has_boxscore /\ Len(games[gi].bteams) >= 2

\* C17: a game adds to a player's wins, losses, ties and goals_against only if
\* the player is resolved as its starting goalie; then it adds 1 to exactly
\* one of wins, losses, ties by the final score seen from the goalie's team,
\* and the opponent's final score to goals_against
C17_GoalieDecisions ==
    [][GameAggregated =>
        \A player_id \in DOMAIN players' :
            LET game == games[gi]
                sides == StartingSides(player_id, game)
            IN  /\ sides = {} =>
                      \A field \in {"wins", "losses", "ties", "goals_against"} :
                          Added(player_id, field) = 0
                /\ \A side \in sides :
                      LET own == IF side = 1 THEN game.home_score ELSE game.away_score
                          other == IF side = 1 THEN game.away_score ELSE game.home_score
                      IN  /\ Added(player_id, "wins") = (IF own > other THEN 1 ELSE 0)
                          /\ Added(player_id, "losses") = (IF own < other THEN 1 ELSE 0)
                          /\ Added(player_id, "ties") = (IF own = other THEN 1 ELSE 0)
                          /\ Added(player_id, "goals_against") = other]_vars

\* the return game lost 1-2 by team A: 30, the named starter, takes the loss
\* and two goals against; 31, dressed as well, takes nothing; 40 takes the win
C17_Witness ==
    /\ pc = "done" /\ games = WithIds(<<ReturnGame(2, 1)>>)
    /\ players[30].losses = 1 /\ players[30].goals_against = 2 /\ players[30].wins = 0
    /\ players[31].position = "G" /\ players[31].losses = 0 /\ players[31].goals_against = 0
    /\ players[40].wins = 1 /\ players[40].goals_against = 1

\* the games of the batch that the loop of process_games aggregates
AggregatedGames == {i \in 1..Len(games) : games[i].has_boxscore /\ Len(games[i].bteams) >= 2}

\* the player appears in the game: as the scorer of a goal, with an assist, with
\* a penalty (events that carry their identities), or on a roster as a player
AppearsIn(player_id, game) ==
    \/ \E k \in 1..Len(game.goals) :
          /\ game.goals[k].participantId # 0 /\ game.goals[k].teamId # 0
          /\ \/ game.goals[k].participantId = player_id
             \/ \E a \in Range(game.goals[k].assists) : a.participantId = player_id
    \/ \E q \in Range(game.penalties) :
          q.participantId = player_id /\ q.teamId # 0
    \/ \E e \in Range(game.home_team_roster) \cup Range(game.away_team_roster) :
          /\ e.participantId = player_id /\ e.fullName # <<>>
          /\ get_player_position(player_positions, player_id) \in {"F", "D", "G"}

\* C18: after process_games a goalie's games_played is the number of games of
\* the batch in which he is resolved as starter, and another player's
\* games_played is the number of games of the batch in which he appears
C18_GamesPlayed ==
    pc = "done" =>
        \A player_id \in DOMAIN players :
            players[player_id].games_played =
                IF players[player_id].position = "G"
                THEN Cardinality({i \in AggregatedGames :
                                     StartingSides(player_id, games[i]) # {}})
                ELSE Cardinality({i \in AggregatedGames : AppearsIn(player_id, games[i])})

(***************************************************************************)
(* Properties of the powerplay-interval calculator: the rising edges        *)
(***************************************************************************)
\* the penalties of the game that carry a team id
Charged == {k \in 1..Len(pp.penalties) : pp.penalties[k].teamId # 0}

PenaltyEnd(k) == StartTime(pp.penalties[k]) + DurationSeconds(pp.penalties[k].duration)

\* the instants at which a penalty interval starts or ends
Boundaries == {StartTime(pp.penalties[k]) : k \in Charged} \cup {PenaltyEnd(k) : k \in Charged}

\* the team's penalties running at the instant t: start <= t < end
ActiveCount(team_id, t) ==
    Cardinality({k \in Charged : /\ pp.penalties[k].teamId = team_id
                                 /\ StartTime(pp.penalties[k]) <= t /\ t < PenaltyEnd(k)})

OnPowerplay(team_id, opponent_id, t) == ActiveCount(opponent_id, t) > ActiveCount(team_id, t)

\* the instants at which the team is on the powerplay and was not at the
\* instant before (or there is no instant before)
RisingEdges(team_id, opponent_id) ==
    {t \in Boundaries :
        /\ OnPowerplay(team_id, opponent_id, t)
        /\ \A u \in Boundaries :
              (u < t /\ \A v \in Boundaries : ~(u < v /\ v < t)) =>
                  ~OnPowerplay(team_id, opponent_id, u)}

\* C19: once the boundary instants have been scanned, each team's opportunity
\* count is the number of instants at which the opponent has strictly more
\* penalties running than the team has, while that was not so at the instant
\* before; equal counts give neither team a powerplay; no penalties, no
\* opportunities
C19_RisingEdge ==
    SweepDone(pp) =>
        /\ pp.home_opps = Cardinality(RisingEdges(pp.home, pp.away))
        /\ pp.away_opps = Cardinality(RisingEdges(pp.away, pp.home))
        /\ pp.penalties = <<>> => pp.home_opps = 0 /\ pp.away_opps = 0

\* each team has had one opportunity, and at some instant both teams have a
\* penalty running
C19_Witness ==
    /\ SweepDone(pp) /\ pp.home_opps = 1 /\ pp.away_opps = 1
    /\ \E t \in Boundaries : ActiveCount(pp.home, t) = 1 /\ ActiveCount(pp.away, t) = 1

\* the k-th unit of the list carries the rank label k
Labeled(units, label) == \A k \in 1..Len(units) : units[k].rank = <<label, k>>

AllScoring(units) == \A k \in 1..Len(units) : units[k].goals > 0

\* C20: in the exported report every team has at most 3 forward lines ranked
\* Line 1..k with points not increasing down the list, at most 2 defense pairs
\* ranked D1..k with goals not increasing, at most 3 powerplay units ranked
\* PP1..k, at most 3 penalty-kill units ranked PK1..k, at most 5 goal-scoring
\* pairs with goals not increasing; every unit listed has goals > 0
C20_RankingAndTruncation ==
    fd.exported =>
        \A t \in DOMAIN fd.report :
            LET r == fd.report[t]
            IN  /\ Len(r.forward_lines) <= 3 /\ Labeled(r.forward_lines, "Line")
                /\ \A k \in 1..(Len(r.forward_lines) - 1) :
                      r.forward_lines[k].points >= r.forward_lines[k + 1].points
                /\ Len(r.defense_pairs) <= 2 /\ Labeled(r.defense_pairs, "D")
                /\ \A k \in 1..(Len(r.defense_pairs) - 1) :
                      r.defense_pairs[k].goals >= r.defense_pairs[k + 1].goals
                /\ Len(r.powerplay_units) <= 3 /\ Labeled(r.powerplay_units, "PP")
                /\ Len(r.penalty_kill_units) <= 3 /\ Labeled(r.penalty_kill_units, "PK")
                /\ Len(r.goal_scoring_pairs) <= 5
                /\ \A k \in 1..(Len(r.goal_scoring_pairs) - 1) :
                      r.goal_scoring_pairs[k].goals >= r.goal_scoring_pairs[k + 1].goals
                /\ AllScoring(r.forward_lines) /\ AllScoring(r.defense_pairs)
                /\ AllScoring(r.powerplay_units) /\ AllScoring(r.penalty_kill_units)
                /\ AllScoring(r.goal_scoring_pairs)

\* a report cut in each of its five lists: team 1 has more scoring units of
\* every kind than are kept, a deduced trio among the lines, and lists whose
\* first and last entries differ in points or goals
C20_Witness ==
    /\ fd.exported /\ Has(fd.team_formations, 1)
    /\ Len(ForwardLineCandidates(fd.team_formations[1])) > 3
    /\ Len(Scoring(fd.team_formations[1].even_strength_d_duos)) > 2
    /\ Len(Scoring(fd.team_formations[1].powerplay_units)) > 3
    /\ Len(Scoring(fd.team_formations[1].penalty_kill_units)) > 3
    /\ Len(Scoring(fd.team_formations[1].goal_scoring_pairs)) > 5
    /\ Len(fd.report[1].forward_lines) = 3 /\ Len(fd.report[1].defense_pairs) = 2
    /\ Len(fd.report[1].goal_scoring_pairs) = 5
    /\ \E k \in 1..3 : fd.report[1].forward_lines[k].type = "deduced_trio"
    /\ fd.report[1].forward_lines[1].points > fd.report[1].forward_lines[3].points
    /\ fd.report[1].defense_pairs[1].goals > fd.report[1].defense_pairs[2].goals
    /\ fd.report[1].goal_scoring_pairs[1].goals > fd.report[1].goal_scoring_pairs[5].goals


(***************************************************************************)
(* Properties of the co-occurrence counting                                 *)
(***************************************************************************)
\* the goal with both strength flags cleared if both are set
BothAsNeither(goal) ==
    IF goal.isPowerplay /\ goal.isShorthanded
    THEN [goal EXCEPT !.isPowerplay = FALSE, !.isShorthanded = FALSE]
    ELSE goal

BothFlagsCleared(gs) ==
    [i \in 1..Len(gs) |->
        [gs[i] EXCEPT !.goals = [k \in 1..Len(gs[i].goals) |-> BothAsNeither(gs[i].goals[k])]]]

\* C21: a goal is counted as powerplay only with isPowerplay and without
\* isShorthanded, as shorthanded only with isShorthanded and without
\* isPowerplay, and as even-strength with neither flag or both: the counters
\* of a batch are those of the batch whose goals with both flags have none,
\* so a goal with both flags is in the even-strength counters and in no
\* powerplay or penalty-kill unit.
C21_StrengthClassification ==
    (fd.gi > Len(fd.games) /\ fd.calls = 1) =>
        fd.team_formations = analyze_formations(EmptyDict, BothFlagsCleared(fd.games))

\* the game that a step of analyze_formations analyses
StepGame == fd.games[fd.gi]

\* a step of analyze_formations has analysed a game
GameAnalysed == fd'.gi = fd.gi + 1

\* the position map of a team when the goals of the step's game are counted
PositionsAtGoals(t) == TeamData(fd'.team_formations, t).player_positions

\* the scorer and the assist participants of a goal
InvolvedSet(goal) ==
    ({goal.participantId} \cup
     {goal.assists[i].participantId : i \in 1..Len(goal.assists)}) \ {0}

\* those of them the team's position map has at the given position
Members(t, goal, position) ==
    {p \in InvolvedSet(goal) :
        Has(PositionsAtGoals(t), p) /\ PositionsAtGoals(t)[p].position = position}

\* the goals of the step's game for team t that have a scorer and no strength flag
EvenStrengthGoals(t) ==
    {k \in 1..Len(StepGame.goals) :
        /\ StepGame.has_boxscore
        /\ StepGame.goals[k].teamId = t /\ StepGame.goals[k].participantId # 0
        /\ ~StepGame.goals[k].isPowerplay /\ ~StepGame.goals[k].isShorthanded}

\* what the step's game adds to the unit K of players of one position
GoalsAdded(t, K, position) ==
    Cardinality({k \in EvenStrengthGoals(t) :
        K \subseteq Members(t, StepGame.goals[k], position)
        /\ StepGame.goals[k].participantId \in K})

AssistsAdded(t, K, position) ==
    Cardinality(UNION {{<<k, i>> : i \in {j \in 1..Len(StepGame.goals[k].assists) :
                                             StepGame.goals[k].assists[j].participantId \in K}} :
                       k \in {g \in EvenStrengthGoals(t) :
                                 K \subseteq Members(t, StepGame.goals[g], position)}})

\* the counter of size-n units of one position is counted as stated over the step
CountedAsStated(t, before, after, n, position) ==
    /\ \A key \in Range(after.keys) :
          /\ Len(key) = n /\ key = SortedSeqOf(Range(key))
          /\ Range(key) \subseteq DOMAIN PositionsAtGoals(t)
          /\ after.val[key].points = after.val[key].goals + after.val[key].assists
    /\ \A K \in {S \in SUBSET (DOMAIN PositionsAtGoals(t)) : Cardinality(S) = n} :
          LET key == SortedSeqOf(K)
          IN  /\ StatsOf(after, key).goals
                    = StatsOf(before, key).goals + GoalsAdded(t, K, position)
              /\ StatsOf(after, key).assists
                    = StatsOf(before, key).assists + AssistsAdded(t, K, position)

\* C22: when a game is analysed, every trio and every pair of the forwards
\* and every pair of the defensemen among the players involved in one of its
\* even-strength goals gets goals + 1 if the scorer is a member and assists
\* + 1 for each assist by a member, and no other unit changes; every unit has
\* points = goals + assists and its key is the sorted tuple of its ids.
C22_EvenStrengthCounting ==
    [][GameAnalysed =>
        \A t \in DOMAIN fd'.team_formations :
            LET before == TeamData(fd.team_formations, t)
                after == fd'.team_formations[t]
            IN  /\ CountedAsStated(t, before.even_strength_f_trios,
                                   after.even_strength_f_trios, 3, "F")
                /\ CountedAsStated(t, before.even_strength_f_pairs,
                                   after.even_strength_f_pairs, 2, "F")
                /\ CountedAsStated(t, before.even_strength_d_duos,
                                   after.even_strength_d_duos, 2, "D")]_vars

\* a batch analysed once where a trio of forwards has scored together, one of
\* its pairs has the two assists and not the goal, a pair of defensemen has
\* scored, and a pair of forwards has scored in two games
C22_Witness ==
    /\ fd.calls = 1 /\ fd.gi > Len(fd.games) /\ Has(fd.team_formations, 1)
    /\ StatsOf(fd.team_formations[1].even_strength_f_trios, <<10, 11, 13>>)
          = [goals |-> 1, assists |-> 2, points |-> 3]
    /\ StatsOf(fd.team_formations[1].even_strength_f_pairs, <<11, 13>>)
          = [goals |-> 0, assists |-> 2, points |-> 2]
    /\ StatsOf(fd.team_formations[1].even_strength_d_duos, <<12, 15>>).goals = 1
    /\ StatsOf(fd.team_formations[1].even_strength_f_pairs, <<10, 11>>).goals = 2

\* the goals of the step's game for team t that have a scorer and the powerplay
\* flag alone (kind "pp") or the shorthanded flag alone (kind "pk")
SpecialTeamsGoals(t, kind) ==
    {k \in 1..Len(StepGame.goals) :
        /\ StepGame.has_boxscore
        /\ StepGame.goals[k].teamId = t /\ StepGame.goals[k].participantId # 0
        /\ StepGame.goals[k].isPowerplay = (kind = "pp")
        /\ StepGame.goals[k].isShorthanded = (kind = "pk")}

\* the ids of the goals of the step's game and of the units counted so far
UnitIds(after) ==
    UNION {InvolvedSet(StepGame.goals[k]) : k \in 1..Len(StepGame.goals)}
    \cup UNION {Range(key) : key \in Range(after.keys)}

\* every goal of the kind is counted in the unit of all its involved players
UnitsCountedAsStated(t, before, after, kind) ==
    \A K \in SUBSET UnitIds(after) :
        LET key == SortedSeqOf(K)
            goals_of_unit == {k \in SpecialTeamsGoals(t, kind) :
                                 InvolvedSet(StepGame.goals[k]) = K}
        IN  /\ StatsOf(after, key).goals
                  = StatsOf(before, key).goals + Cardinality(goals_of_unit)
            /\ StatsOf(after, key).assists
                  = StatsOf(before, key).assists
                    + Cardinality(UNION {{<<k, i>> :
                          i \in {j \in 1..Len(StepGame.goals[k].assists) :
                                    StepGame.goals[k].assists[j].participantId # 0}} :
                          k \in goals_of_unit})

\* C23: when a game is analysed, each of its powerplay goals (resp.
\* shorthanded goals) that has a scorer adds, to the powerplay (resp.
\* penalty-kill) unit whose key is the sorted tuple of the scorer and all the
\* assist participants whatever their position, one goal and one assist per
\* assist; no involved player is missing from the key and no such goal is
\* left uncounted.
C23_SpecialTeamsUnits ==
    [][GameAnalysed =>
        \A t \in {StepGame.goals[k].teamId : k \in 1..Len(StepGame.goals)} \ {0} :
            LET before == TeamData(fd.team_formations, t)
                after == TeamData(fd'.team_formations, t)
            IN  /\ UnitsCountedAsStated(t, before.powerplay_units,
                                        after.powerplay_units, "pp")
                /\ UnitsCountedAsStated(t, before.penalty_kill_units,
                                        after.penalty_kill_units, "pk")]_vars

(***************************************************************************)
(* Properties of the forward line candidates                                *)
(***************************************************************************)
\* C24: among the forward line candidates of a team, no line of type pair is
\* made of two players of a trio of the candidates, be the trio counted
\* directly or deduced from pairs.
C24_StandaloneDuoSuppression ==
    fd.gi > Len(fd.games) =>
        \A t \in DOMAIN fd.team_formations :
            LET lines == ForwardLineCandidates(fd.team_formations[t])
            IN  \A i, j \in 1..Len(lines) :
                    (lines[i].type \in {"trio", "deduced_trio"} /\ lines[j].type = "pair")
                        => ~(Range(lines[j].key) \subseteq Range(lines[i].key))

\* the lines of the candidates that have the given key
LinesOf(lines, key) == {i \in 1..Len(lines) : lines[i].key = key}

\* the pairs of a trio key that have the most points
BestPairs(pairs, key) ==
    LET three == {<<key[1], key[2]>>, <<key[1], key[3]>>, <<key[2], key[3]>>}
    IN  {p \in three : \A q \in three : pairs.val[q].points <= pairs.val[p].points}

\* the trios deduced from the pairs of a team that were also counted directly
DeducedAndDirect(team_data) ==
    LET deduced == _detect_deduced_trios(team_data.even_strength_f_pairs, team_data).deduced_trios
    IN  {deduced[k].key : k \in 1..Len(deduced)}
        \cap Range(Scoring(team_data.even_strength_f_trios))

\* C25: when a trio deduced from pairs has the members of a trio counted
\* directly, the candidates hold that trio once: with the deduced stats (those
\* of a best pair) and type deduced_trio if the deduced points are strictly
\* greater than the direct trio's, and otherwise with the stats of the direct
\* counter and type trio.
C25_DeducedVersusDirect ==
    fd.gi > Len(fd.games) =>
        \A t \in DOMAIN fd.team_formations :
            LET team_data == fd.team_formations[t]
                lines == ForwardLineCandidates(team_data)
            IN  \A key \in DeducedAndDirect(team_data) :
                    LET direct == team_data.even_strength_f_trios.val[key]
                        best == BestPairs(team_data.even_strength_f_pairs, key)
                    IN  /\ Cardinality(LinesOf(lines, key)) = 1
                        /\ \A i \in LinesOf(lines, key) : \E p \in best :
                              LET pair == team_data.even_strength_f_pairs.val[p]
                              IN  IF pair.points > direct.points
                                  THEN /\ lines[i].type = "deduced_trio"
                                       /\ lines[i].goals = pair.goals
                                       /\ lines[i].assists = pair.assists
                                       /\ lines[i].points = pair.points
                                  ELSE /\ lines[i].type = "trio"
                                       /\ lines[i].goals = direct.goals
                                       /\ lines[i].assists = direct.assists
                                       /\ lines[i].points = direct.points

\* an analysed batch where the trio 10-11-13 was counted directly with 6
\* points and is deduced from pairs whose best has 6 points as well: the
\* direct trio stands
C25_Witness ==
    /\ fd.gi > Len(fd.games) /\ Has(fd.team_formations, 1)
    /\ <<10, 11, 13>> \in DeducedAndDirect(fd.team_formations[1])
    /\ fd.team_formations[1].even_strength_f_trios.val[<<10, 11, 13>>].points = 6
    /\ \E p \in BestPairs(fd.team_formations[1].even_strength_f_pairs, <<10, 11, 13>>) :
          fd.team_formations[1].even_strength_f_pairs.val[p].points = 6
    /\ \E i \in LinesOf(ForwardLineCandidates(fd.team_formations[1]), <<10, 11, 13>>) :
          ForwardLineCandidates(fd.team_formations[1])[i].type = "trio"

\* the co-occurrence counters of a team, whatever the order of their keys
CounterValues(team_data) ==
    [even_strength_f_trios |-> team_data.even_strength_f_trios.val,
     even_strength_f_pairs |-> team_data.even_strength_f_pairs.val,
     even_strength_d_duos |-> team_data.even_strength_d_duos.val,
     powerplay_units |-> team_data.powerplay_units.val,
     penalty_kill_units |-> team_data.penalty_kill_units.val,
     goal_scoring_pairs |-> team_data.goal_scoring_pairs.val]

Counters(team_formations) ==
    [t \in DOMAIN team_formations |-> CounterValues(team_formations[t])]

\* C26: the position map holds every roster entry of every game of the batch
\* before a goal is counted, so that the players of a goal are recognised
\* whatever the place of its game in the batch: analyze_formations leaves the
\* same co-occurrence counters for every permutation of the games.
C26_TwoPassOrdering ==
    (fd.gi > Len(fd.games) /\ fd.calls = 1) =>
        \A gs \in Reorderings(fd.games) :
            Counters(analyze_formations(EmptyDict, gs)) = Counters(fd.team_formations)

(***************************************************************************)
(* Properties of the ledger: positions, penalty minutes, goalie records     *)
(***************************************************************************)
\* the staff roles the scraper asks the members endpoint for
FetchedStaffRoles ==
    {"Head Coach", "Assistant Coach", "Goaltending Coach", "Manager", "Trainer", "Safety Person"}

\* the position of a roster entry as stated: C is a forward, a staff role is
\* Coach, F, D, G are themselves, any other code is a forward
NormalizedAsStated(entry) ==
    LET position == IF entry.positions = <<>> THEN "F" ELSE entry.positions[1]
    IN  IF position = "C" THEN "F"
        ELSE IF position \in FetchedStaffRoles THEN "Coach"
        ELSE IF position \in {"F", "D", "G"} THEN position
        ELSE "F"

\* the roster entries of the batch that bear the given participant id
EntriesOf(player_id) ==
    UNION {{e \in Range(games[i].home_team_roster) \cup Range(games[i].away_team_roster) :
               e.participantId = player_id} : i \in 1..Len(games)}

\* the participant scores, assists or is penalized in a game of the batch
HasEvent(player_id) ==
    \E i \in 1..Len(games) :
        \/ \E k \in 1..Len(games[i].goals) :
              player_id \in InvolvedSet(games[i].goals[k])
        \/ \E k \in 1..Len(games[i].penalties) :
              games[i].penalties[k].participantId = player_id

\* C27: the position index gives every roster entry one of F, D, G, Coach,
\* with C as F, each staff role the rosters are fetched with (Head Coach,
\* Assistant Coach, Goaltending Coach, Manager, Trainer, Safety Person) as
\* Coach and any other code as F; a participant whose roster entries are all
\* Coach is not registered as a player and has no appearance.
C27_PositionNormalization ==
    pc \in {"loop", "done", "saved"} =>
        /\ \A player_id \in DOMAIN player_positions :
              /\ player_positions[player_id] \in {"F", "D", "G", "Coach"}
              /\ player_positions[player_id]
                    \in {NormalizedAsStated(e) : e \in EntriesOf(player_id)}
        /\ \A i \in 1..Len(games) :
              \A e \in Range(games[i].home_team_roster) \cup Range(games[i].away_team_roster) :
                  /\ e.participantId # 0 => Has(player_positions, e.participantId)
                  /\ ( /\ e.participantId # 0
                       /\ \A o \in EntriesOf(e.participantId) : NormalizedAsStated(o) = "Coach"
                       /\ ~HasEvent(e.participantId) )
                     => /\ ~Has(players, e.participantId)
                        /\ ~Has(player_games, e.participantId)

\* the minutes of a penalty as stated
StatedMinutes(duration_name) ==
    CASE duration_name \in {"Minor", "Mineure", "Double Minor"} -> 2
      [] duration_name \in {"Major", "Majeure"} -> 5
      [] duration_name \in {"Misconduct", "Game Misconduct"} -> 10
      [] OTHER -> 2

\* the penalties, <<game, index>>, of the games aggregated so far that carry
\* a player id and a team id
ChargedPenalties ==
    LET last == IF pc = "loop" THEN gi - 1 ELSE Len(games)
    IN  UNION {{<<i, k>> : k \in {j \in 1..Len(games[i].penalties) :
                                      /\ games[i].penalties[j].participantId # 0
                                      /\ games[i].penalties[j].teamId # 0}} :
               i \in AggregatedGames \cap 1..last}

PenaltyAt(ik) == games[ik[1]].penalties[ik[2]]

\* the minutes of a set of penalties
MinutesOf(S) ==
    2 * Cardinality({ik \in S : StatedMinutes(PenaltyAt(ik).duration) = 2})
    + 5 * Cardinality({ik \in S : StatedMinutes(PenaltyAt(ik).duration) = 5})
    + 10 * Cardinality({ik \in S : StatedMinutes(PenaltyAt(ik).duration) = 10})

RECURSIVE SumPenaltyMinutes(_, _)
SumPenaltyMinutes(table, keys) ==
    IF keys = <<>> THEN 0
    ELSE table[Head(keys)].penalty_minutes + SumPenaltyMinutes(table, Tail(keys))

C29_GoalieRecord ==
    pc \in {"done", "saved"} =>
        \A player_id \in DOMAIN players :
            players[player_id].position = "G" =>
                players[player_id].games_played
                    = players[player_id].wins + players[player_id].losses
                      + players[player_id].ties

(***************************************************************************)
(* Properties of the powerplay-interval calculator: bounds                  *)
(***************************************************************************)
\* the penalties charged to the team
PenaltiesOf(team_id) == {k \in Charged : pp.penalties[k].teamId = team_id}

\* C30 as stated: a team's opportunity count never exceeds the number of
\* penalties taken by the opposing team in the game, and the two teams are
\* never on the powerplay at the same instant.
C30_OpportunityBoundAsStated ==
    /\ pp.home_opps <= Cardinality(PenaltiesOf(pp.away))
    /\ pp.away_opps <= Cardinality(PenaltiesOf(pp.home))
    /\ ~(pp.prev_home_pp /\ pp.prev_away_pp)
    /\ \A t \in Boundaries :
          ~(OnPowerplay(pp.home, pp.away, t) /\ OnPowerplay(pp.away, pp.home, t))

\* the instants at which an opportunity of the team can begin: a penalty of
\* the opponent starts, or a penalty of its own ends
OpeningInstants(team_id, opponent_id) ==
    {StartTime(pp.penalties[k]) : k \in PenaltiesOf(opponent_id)}
    \cup {PenaltyEnd(k) : k \in PenaltiesOf(team_id)}

\* C30: a team's opportunity count never exceeds the number of instants at
\* which a penalty of the opponent starts or one of its own ends, hence never
\* the number of penalties of the two teams together; it is 0 when the
\* opponent takes no penalty; the two teams are never on the powerplay at the
\* same instant.
C30_OpportunityBound ==
    /\ pp.home_opps <= Cardinality(OpeningInstants(pp.home, pp.away))
    /\ pp.away_opps <= Cardinality(OpeningInstants(pp.away, pp.home))
    /\ pp.home_opps <= Cardinality(PenaltiesOf(pp.away)) + Cardinality(PenaltiesOf(pp.home))
    /\ pp.away_opps <= Cardinality(PenaltiesOf(pp.away)) + Cardinality(PenaltiesOf(pp.home))
    /\ PenaltiesOf(pp.away) = {} => pp.home_opps = 0
    /\ PenaltiesOf(pp.home) = {} => pp.away_opps = 0
    /\ ~(pp.prev_home_pp /\ pp.prev_away_pp)
    /\ \A t \in Boundaries :
          ~(OnPowerplay(pp.home, pp.away, t) /\ OnPowerplay(pp.away, pp.home, t))

\* the away team takes one penalty and the home team has had two
\* opportunities: its own penalty, taken during the first, has ended before
\* the away team's
C30_Witness ==
    /\ SweepDone(pp) /\ pp.home_opps = 2
    /\ Cardinality(PenaltiesOf(pp.away)) = 1 /\ Cardinality(PenaltiesOf(pp.home)) = 1
    /\ Cardinality(OpeningInstants(pp.home, pp.away)) = 2

=============================================================================
